---- MODULE Spec2Model ----
(***************************************************************************)
(* Admin dashboard for tourist monitoring (safe-tourist-watch).            *)
(*                                                                         *)
(* The module holds several specifications over one set of variables:     *)
(*   SpecReduce  the latest-position reduction and the location           *)
(*               classification, applied at every call site to a batch    *)
(*               of location logs drawn from a bounded set.               *)
(*   SpecMon     the Tourist Monitoring view (both versions in the        *)
(*               repository): the location_logs table, fetches in flight, *)
(*               the filters and what the view shows.                     *)
(*   SpecEfir    the E-FIR table of the migration and E-FIR Management    *)
(*               views that update the status of its rows.                *)
(*   SpecSub     the realtime channels the dashboard views open and       *)
(*               remove in their effects, as Index switches views.        *)
(*   SpecList    the incidents list of the SOS & Incidents page: the      *)
(*               parent's incidents array, the list's search, filter and  *)
(*               sort state and what the list shows.                      *)
(*   SpecListFn  the sort and the status filters of the incident and      *)
(*               E-FIR lists, applied to lists drawn from a bounded set.  *)
(*   SpecNotifList  the notification list of NotificationSystem under its *)
(*               three state updates, applied in any order.               *)
(*   SpecInc     the incidents table, the incidents the SOS & Incidents   *)
(*               page holds, the status buttons of the incidents list and *)
(*               the test panel that inserts an incident.                 *)
(*   SpecSos     the alerts table, the alerts the SOS & Incidents page    *)
(*               holds, its active list and the cards that mark an alert  *)
(*               resolved.                                                *)
(*   SpecRec     the detail panel of Tourist Records: the selected        *)
(*               tourist, the last-known location and the location        *)
(*               fetches in flight.                                       *)
(*   SpecHazard  Hazard Management: the fetched hazards, the clock and    *)
(*               what a render counts and displays as Active.             *)
(*   SpecNotif   NotificationSystem as mounted by the SOS & Incidents     *)
(*               page: initializePreviousData, the INSERT events of the   *)
(*               two tables, the detail lookups and the effect re-runs.   *)
(*               SpecNotifFair adds that every lookup in flight settles.  *)
(*   SpecIdx     the Index page: the auth effect with its getSession call *)
(*               and its auth-state callback, the logout of the dashboard *)
(*               layout and what Index renders.                           *)
(* Each specification leaves the variables of the others at their idle    *)
(* value.                                                                  *)
(***************************************************************************)
EXTENDS Integers, Sequences, FiniteSets, TLC

(***************************************************************************)
(* Bounds of the model.                                                    *)
(***************************************************************************)
\* longest batch of location logs handed to a reduction
MaxLogs == 3
\* most rows ever inserted into the location_logs table
MaxRows == 2
\* most fetches a Tourist Monitoring view starts
MaxFetches == 2
\* most clicks on the status buttons of the E-FIR views
MaxClicks == 3

(***************************************************************************)
(* Program constants.                                                      *)
(***************************************************************************)
\* 1000 * 60 * 60, the divisor of timeDiff in every classification
MsPerHour == 3600000
\* the staleness threshold `hoursAgo > 6`
StaleHours == 6

(***************************************************************************)
(* Data: LocationLog rows.                                                 *)
(* A timestamp is the ISO string of the row, kept as its hour and the     *)
(* milliseconds past the hour; new Date(s).getTime() turns it into epoch  *)
(* milliseconds.                                                           *)
(***************************************************************************)
Tourists == {"T1", "T2"}

Timestamps ==
  { [h |-> 5,  ms |-> 3599999],
    [h |-> 6,  ms |-> 0],
    [h |-> 11, ms |-> 0] }

\* value of Date.now() at the time a view classifies: 12:00:00.000, which
\* makes the rows of 06:00:00.000 exactly 6 hours old
Nows == { 12 * MsPerHour }

LogFields ==
  [tourist_id : Tourists, timestamp : Timestamps, in_restricted_zone : BOOLEAN]

WithId(f, i) ==
  [id |-> i, tourist_id |-> f.tourist_id, timestamp |-> f.timestamp,
   in_restricted_zone |-> f.in_restricted_zone]

\* every batch of at most MaxLogs rows; the row at position i carries id i
Batches ==
  UNION { { [i \in 1..n |-> WithId(fs[i], i)] : fs \in [1..n -> LogFields] } : n \in 0..MaxLogs }

getTime(ts) == ts.h * MsPerHour + ts.ms

(***************************************************************************)
(* Array helpers of the host language.                                     *)
(***************************************************************************)
RECURSIVE findIndexFrom(_, _, _)
findIndexFrom(acc, tid, i) ==
  IF i > Len(acc) THEN -1
  ELSE IF acc[i].tourist_id = tid THEN i
  ELSE findIndexFrom(acc, tid, i + 1)

\* acc.findIndex(l => l.tourist_id === tid), 1-based, -1 when absent
findIndex(acc, tid) == findIndexFrom(acc, tid, 1)

\* acc.filter(l => l.tourist_id !== tid)
withoutTourist(acc, tid) == SelectSeq(acc, LAMBDA l : l.tourist_id # tid)

(***************************************************************************)
(* The reductions.                                                         *)
(***************************************************************************)
\* latestStep without the filter that drops the tourist's previous record
latestStepKeepOld(acc, location) ==
  LET i == findIndex(acc, location.tourist_id) IN
  IF i = -1 \/ getTime(location.timestamp) > getTime(acc[i].timestamp)
  THEN Append(acc, location)
  ELSE acc

\* one step of the reduce in LiveLocationMap / SimpleLeafletMap /
\* the Leaflet variant of TouristMonitoring: find, filter out, push
latestStep(acc, location) ==
  LET i == findIndex(acc, location.tourist_id) IN
  IF i = -1 \/ getTime(location.timestamp) > getTime(acc[i].timestamp)
  THEN Append(withoutTourist(acc, location.tourist_id), location)
  ELSE acc

RECURSIVE reduceLatest(_, _, _)
reduceLatest(locs, i, acc) ==
  IF i > Len(locs) THEN acc
  ELSE reduceLatest(locs, i + 1, latestStep(acc, locs[i]))

latestLocationsByTourist(locs) == reduceLatest(locs, 1, <<>>)

\* fetchStep with the comparison weakened to >=, so that the later of two
\* records with equal timestamps replaces the earlier
fetchStepLastWins(acc, location) ==
  LET i == findIndex(acc, location.tourist_id) IN
  IF i = -1 THEN Append(acc, location)
  ELSE IF getTime(location.timestamp) >= getTime(acc[i].timestamp)
       THEN [acc EXCEPT ![i] = location]
       ELSE acc

\* one step of the reduce in TouristMonitoring.fetchLocationData:
\* findIndex, push or replace in place
fetchStep(acc, location) ==
  LET i == findIndex(acc, location.tourist_id) IN
  IF i = -1 THEN Append(acc, location)
  ELSE IF getTime(location.timestamp) > getTime(acc[i].timestamp)
       THEN [acc EXCEPT ![i] = location]
       ELSE acc

RECURSIVE reduceFetch(_, _, _)
reduceFetch(locs, i, acc) ==
  IF i > Len(locs) THEN acc
  ELSE reduceFetch(locs, i + 1, fetchStep(acc, locs[i]))

latestLocations(data) == reduceFetch(data, 1, <<>>)

(***************************************************************************)
(* The classifications.  hoursAgo is the quotient timeDiff / MsPerHour,   *)
(* kept as a fraction; `hoursAgo > 6` compares the fraction with 6.        *)
(***************************************************************************)
hoursAgo(nowMs, location) ==
  [num |-> nowMs - getTime(location.timestamp), den |-> MsPerHour]

\* FracGreater with the comparison weakened to >=
FracGreaterOrEqual(q, n) == q.num >= n * q.den

FracGreater(q, n) == q.num > n * q.den

\* TouristMonitoring.getLocationStatus (both variants), the status text
getLocationStatus(nowMs, location) ==
  IF location.in_restricted_zone THEN "Restricted Zone"
  ELSE IF FracGreater(hoursAgo(nowMs, location), StaleHours) THEN "Outdated"
  ELSE "Safe"

\* mapLocationStatus with the staleness test ahead of the restricted-zone test
mapLocationStatusStaleFirst(nowMs, location) ==
  IF FracGreater(hoursAgo(nowMs, location), StaleHours) THEN "outdated"
  ELSE IF location.in_restricted_zone THEN "restricted"
  ELSE "safe"

\* TouristMap.getLocationStatus
mapLocationStatus(nowMs, location) ==
  IF location.in_restricted_zone THEN "restricted"
  ELSE IF FracGreater(hoursAgo(nowMs, location), StaleHours) THEN "outdated"
  ELSE "safe"

\* LiveLocationMap.getMarkerColor (same code in SimpleLeafletMap)
getMarkerColor(nowMs, location) ==
  IF location.in_restricted_zone THEN "#ef4444"
  ELSE IF FracGreater(hoursAgo(nowMs, location), StaleHours) THEN "#6b7280"
  ELSE "#22c55e"

\* the null of `LocationLog | null`
NoLocation == [null |-> TRUE]

\* TouristRecords.getLocationStatus; location may be null
recordLocationStatus(nowMs, location) ==
  IF location = NoLocation THEN "unknown"
  ELSE IF location.in_restricted_zone THEN "restricted"
  ELSE IF FracGreater(hoursAgo(nowMs, location), StaleHours) THEN "outdated"
  ELSE "safe"

(***************************************************************************)
(* State.                                                                  *)
(***************************************************************************)
VARIABLES
  batch,      \* SpecReduce: the location logs handed to the call site
  now,        \* SpecReduce: Date.now() at the time of the call
  site,       \* SpecReduce: the call site that ran last, "none" before any
  shown,      \* SpecReduce: the records the call site shows
  classes,    \* SpecReduce: the classification of each shown record
  monVersion,   \* SpecMon: which TouristMonitoring component is mounted
  logs,         \* SpecMon: rows of app_a857ad95a4_location_logs, in insertion order
  monLocations, \* SpecMon: useState locations
  monFiltered,  \* SpecMon: useState filteredLocations
  monLoading,   \* SpecMon: useState loading
  monSearch,    \* SpecMon: useState searchTerm
  monTime,      \* SpecMon: useState timeFilter
  monSeverity,  \* SpecMon: useState severityFilter
  monReqs,      \* SpecMon: fetches in flight
  monNextReq,   \* SpecMon: number of fetches started so far
  monData,      \* SpecMon: `data` of the response that resolved last
  monLastSeq,   \* SpecMon: start order of the fetch whose response resolved last
  monMaxSeq,    \* SpecMon: highest start order among the fetches resolved so far
  monToast,     \* SpecMon: title of the toast shown last, "none" before any
  monHeal,      \* SpecMon: where the view is after a missed notification
  efirRows,     \* SpecEfir: rows of app_a857ad95a4_efirs, by id
  efirs,        \* SpecEfir: useState efirs of each E-FIR Management view
  efirCalls,    \* SpecEfir: updateEfirStatus calls that have not returned
  efirFetches,  \* SpecEfir: fetchEfirs calls that have not returned
  efirClock,    \* SpecEfir: clicks so far; new Date() of the next click
  subView,       \* SpecSub: the view Index renders, "none" when logged out
  subVersion,    \* SpecSub: which TouristMonitoring component 'monitoring' renders
  subTimeFilter, \* SpecSub: useState timeFilter of the mounted view
  subChannels,   \* SpecSub: the channels of the supabase client
  subRuns,       \* SpecSub: the live run of each effect, 0 when it has none
  subNextRun,    \* SpecSub: number of the next effect run
  subPending,    \* SpecSub: cleanups and effects of the commit still to run
  subOpened,     \* SpecSub: every channel opened so far
  ilIncidents,    \* SpecList: the array held by useState incidents of the page
  ilFetched,      \* SpecList: that array as setIncidents stored it
  ilSearchTerm,   \* SpecList: useState searchTerm of IncidentsList
  ilStatusFilter, \* SpecList: useState statusFilter of IncidentsList
  ilSortBy,       \* SpecList: useState sortBy of IncidentsList
  ilSortOrder,    \* SpecList: useState sortOrder of IncidentsList
  ilShown,        \* SpecList: filteredAndSortedIncidents of the last render
  ilThrew,        \* SpecList: the last render threw a TypeError
  fnIncidents,    \* SpecListFn: the incidents handed to the list
  fnEfirs,        \* SpecListFn: the efirs handed to the E-FIR filter
  fnCalls,        \* SpecListFn: the results computed so far, by call
  nlNotifications, \* SpecNotifList: useState notifications
  nlIncidents,     \* SpecNotifList: incident notifications made so far
  nlAlerts,        \* SpecNotifList: SOS notifications made so far
  nlClicks,        \* SpecNotifList: clicks on the X and Clear All buttons so far
  nfOld,           \* SpecNotif: rows of each table when the component mounted
  nfRows,          \* SpecNotif: rows of each table now; the ids are 1..nfRows
  nfInit,          \* SpecNotif: where initializePreviousData is, and its data
  nfPrev,          \* SpecNotif: previousIncidentsRef / previousAlertsRef
  nfRecorded,      \* SpecNotif: the ids initializePreviousData added
  nfRun,           \* SpecNotif: runs of the two subscription effects so far
  nfDelivered,     \* SpecNotif: deliveries of each INSERT event so far
  nfAccepted,      \* SpecNotif: events a handler found new
  nfLookups,       \* SpecNotif: detail lookups in flight
  nfNotifications, \* SpecNotif: useState notifications
  nfMade,          \* SpecNotif: notifications made for each id so far
  nfCalled,        \* SpecNotif: onIncidentAlert / onSosAlert calls for each id
  hzHazards,    \* SpecHazard: useState hazards
  hzLoading,    \* SpecHazard: useState loading
  hzActiveTab,  \* SpecHazard: useState activeTab
  hzClock,      \* SpecHazard: the clock, in milliseconds
  hzCount,      \* SpecHazard: the number in the `Active Hazards` tab button
  hzCountAt,    \* SpecHazard: new Date() of the calls that counted, 0 before any
  hzBadges,     \* SpecHazard: the Active / Inactive badge of each hazard card
  hzBadgesAt,   \* SpecHazard: new Date() of the calls for the badges, 0 before any
  incRows,      \* SpecInc: rows of app_a857ad95a4_incidents, by id
  incIncidents, \* SpecInc: useState incidents of the SOS & Incidents page
  incCalls,     \* SpecInc: handleStatusUpdate calls that have not returned
  incFetches,   \* SpecInc: fetchIncidents calls that have not returned
  incClicks,    \* SpecInc: clicks so far; new Date() of the next click
  incToast,     \* SpecInc: title of the toast shown last, "none" before any
  sosRows,      \* SpecSos: rows of app_a857ad95a4_alerts, by id
  sosAlerts,    \* SpecSos: useState sosAlerts of the SOS & Incidents page
  sosCalls,     \* SpecSos: handleMarkAsResolved calls that have not returned
  sosFetches,   \* SpecSos: fetchSosAlerts calls that have not returned
  sosClicks,    \* SpecSos: inserts and clicks so far
  sosToast,     \* SpecSos: title of the toast shown last, "none" before any
  recSelected,  \* SpecRec: useState selectedTourist, "none" for null
  recLocation,  \* SpecRec: useState touristLocation
  recFetches,   \* SpecRec: fetchTouristLocation calls that have not returned
  recClicks,    \* SpecRec: clicks on `View Details` so far
  idxUser,      \* SpecIdx: useState user of Index, "none" for null
  idxSession,   \* SpecIdx: useState session of Index, "none" for null
  idxLoading,   \* SpecIdx: useState loading of Index
  idxCurrentView, \* SpecIdx: useState currentView of Index
  idxAuth,      \* SpecIdx: the session the auth client holds, "none" for null
  idxGet,       \* SpecIdx: the getSession call of the effect and its promise
  idxEvents,    \* SpecIdx: auth events emitted and not yet handed to the callback
  idxLogout,    \* SpecIdx: position of DashboardLayout's handleLogout
  idxSignIns,   \* SpecIdx: sign-ins at the auth client so far
  idxClicks,    \* SpecIdx: clicks on Logout so far
  idxToast,     \* SpecIdx: title of the last toast, "none" before any
  idxLoggedOut  \* SpecIdx: handleLogout ran and no SIGNED_IN event was handled since

reduceVars == <<batch, now, site, shown, classes>>

monVars ==
  <<monVersion, logs, monLocations, monFiltered, monLoading, monSearch, monTime,
    monSeverity, monReqs, monNextReq, monData, monLastSeq, monMaxSeq, monToast,
    monHeal>>

efirVars == <<efirRows, efirs, efirCalls, efirFetches, efirClock>>

subVars ==
  <<subView, subVersion, subTimeFilter, subChannels, subRuns, subNextRun,
    subPending, subOpened>>

listVars ==
  <<ilIncidents, ilFetched, ilSearchTerm, ilStatusFilter, ilSortBy, ilSortOrder,
    ilShown, ilThrew>>

fnVars == <<fnIncidents, fnEfirs, fnCalls>>

nlVars == <<nlNotifications, nlIncidents, nlAlerts, nlClicks>>

NlIdle ==
  /\ nlNotifications = <<>>
  /\ nlIncidents = 0
  /\ nlAlerts = 0
  /\ nlClicks = 0

notifVars ==
  <<nfOld, nfRows, nfInit, nfPrev, nfRecorded, nfRun, nfDelivered, nfAccepted,
    nfLookups, nfNotifications, nfMade, nfCalled>>

NotifIdle ==
  /\ nfOld = <<>>
  /\ nfRows = <<>>
  /\ nfInit = <<>>
  /\ nfPrev = <<>>
  /\ nfRecorded = <<>>
  /\ nfRun = 0
  /\ nfDelivered = <<>>
  /\ nfAccepted = {}
  /\ nfLookups = {}
  /\ nfNotifications = <<>>
  /\ nfMade = <<>>
  /\ nfCalled = <<>>

hazardVars == <<hzHazards, hzLoading, hzActiveTab, hzClock, hzCount, hzCountAt,
                hzBadges, hzBadgesAt>>

HazardIdle ==
  /\ hzHazards = <<>>
  /\ hzLoading = FALSE
  /\ hzActiveTab = "none"
  /\ hzClock = 0
  /\ hzCount = 0
  /\ hzCountAt = 0
  /\ hzBadges = <<>>
  /\ hzBadgesAt = 0

incVars == <<incRows, incIncidents, incCalls, incFetches, incClicks, incToast>>

IncIdle ==
  /\ incRows = <<>>
  /\ incIncidents = <<>>
  /\ incCalls = {}
  /\ incFetches = {}
  /\ incClicks = 0
  /\ incToast = "none"

sosVars == <<sosRows, sosAlerts, sosCalls, sosFetches, sosClicks, sosToast>>

SosIdle ==
  /\ sosRows = <<>>
  /\ sosAlerts = <<>>
  /\ sosCalls = {}
  /\ sosFetches = {}
  /\ sosClicks = 0
  /\ sosToast = "none"

recVars == <<recSelected, recLocation, recFetches, recClicks>>

RecIdle ==
  /\ recSelected = "none"
  /\ recLocation = <<>>
  /\ recFetches = {}
  /\ recClicks = 0

idxVars ==
  <<idxUser, idxSession, idxLoading, idxCurrentView, idxAuth, idxGet,
    idxEvents, idxLogout, idxSignIns, idxClicks, idxToast, idxLoggedOut>>

IdxIdle ==
  /\ idxUser = "none"
  /\ idxSession = "none"
  /\ idxLoading = FALSE
  /\ idxCurrentView = "none"
  /\ idxAuth = "none"
  /\ idxGet = <<>>
  /\ idxEvents = <<>>
  /\ idxLogout = "none"
  /\ idxSignIns = 0
  /\ idxClicks = 0
  /\ idxToast = "none"
  /\ idxLoggedOut = FALSE

vars ==
  <<reduceVars, monVars, efirVars, subVars, listVars, fnVars, nlVars,
    notifVars, hazardVars, incVars, sosVars, recVars, idxVars>>

ReduceIdle ==
  /\ batch = <<>>
  /\ now = 0
  /\ site = "none"
  /\ shown = <<>>
  /\ classes = <<>>

MonIdle ==
  /\ monVersion = "none"
  /\ logs = <<>>
  /\ monLocations = <<>>
  /\ monFiltered = <<>>
  /\ monLoading = FALSE
  /\ monSearch = <<>>
  /\ monTime = "all"
  /\ monSeverity = "all"
  /\ monReqs = {}
  /\ monNextReq = 0
  /\ monData = <<>>
  /\ monLastSeq = 0
  /\ monMaxSeq = 0
  /\ monToast = "none"
  /\ monHeal = "none"

EfirIdle ==
  /\ efirRows = <<>>
  /\ efirs = <<>>
  /\ efirCalls = {}
  /\ efirFetches = {}
  /\ efirClock = 0

SubIdle ==
  /\ subView = "none"
  /\ subVersion = "none"
  /\ subTimeFilter = "none"
  /\ subChannels = {}
  /\ subRuns = <<>>
  /\ subNextRun = 0
  /\ subPending = <<>>
  /\ subOpened = {}

ListIdle ==
  /\ ilIncidents = <<>>
  /\ ilFetched = <<>>
  /\ ilSearchTerm = <<>>
  /\ ilStatusFilter = <<>>
  /\ ilSortBy = <<>>
  /\ ilSortOrder = "desc"
  /\ ilShown = <<>>
  /\ ilThrew = FALSE

FnIdle ==
  /\ fnIncidents = <<>>
  /\ fnEfirs = <<>>
  /\ fnCalls = <<>>

InitReduce ==
  /\ IdxIdle
  /\ RecIdle
  /\ SosIdle
  /\ IncIdle
  /\ HazardIdle
  /\ NotifIdle
  /\ NlIdle
  /\ MonIdle
  /\ EfirIdle
  /\ SubIdle
  /\ ListIdle
  /\ FnIdle
  /\ batch \in Batches
  /\ now \in Nows
  /\ site = "none"
  /\ shown = <<>>
  /\ classes = <<>>

\* LiveLocationMap renders its locations prop
LiveLocationMapRender ==
  /\ site = "none"
  /\ site' = "LiveLocationMap"
  /\ shown' = latestLocationsByTourist(batch)
  /\ classes' = [i \in 1..Len(latestLocationsByTourist(batch)) |-> getMarkerColor(now, latestLocationsByTourist(batch)[i])]
  /\ UNCHANGED <<batch, now, monVars, efirVars, subVars, listVars, fnVars,
                 nlVars, notifVars, hazardVars, incVars, sosVars, recVars,
                 idxVars>>

\* SimpleLeafletMap renders its locations prop
SimpleLeafletMapRender ==
  /\ site = "none"
  /\ site' = "SimpleLeafletMap"
  /\ shown' = latestLocationsByTourist(batch)
  /\ classes' = [i \in 1..Len(latestLocationsByTourist(batch)) |-> getMarkerColor(now, latestLocationsByTourist(batch)[i])]
  /\ UNCHANGED <<batch, now, monVars, efirVars, subVars, listVars, fnVars,
                 nlVars, notifVars, hazardVars, incVars, sosVars, recVars,
                 idxVars>>

\* TouristMonitoring.fetchLocationData reduces the fetched rows; the list
\* classifies each with getLocationStatus
FetchLocationDataReduce ==
  /\ site = "none"
  /\ site' = "TouristMonitoring"
  /\ shown' = latestLocations(batch)
  /\ classes' = [i \in 1..Len(latestLocations(batch)) |-> getLocationStatus(now, latestLocations(batch)[i])]
  /\ UNCHANGED <<batch, now, monVars, efirVars, subVars, listVars, fnVars,
                 nlVars, notifVars, hazardVars, incVars, sosVars, recVars,
                 idxVars>>

\* TouristMap draws one marker per location it is given
TouristMapRender ==
  /\ site = "none"
  /\ site' = "TouristMap"
  /\ shown' = batch
  /\ classes' = [i \in 1..Len(batch) |-> mapLocationStatus(now, batch[i])]
  /\ UNCHANGED <<batch, now, monVars, efirVars, subVars, listVars, fnVars,
                 nlVars, notifVars, hazardVars, incVars, sosVars, recVars,
                 idxVars>>

\* TouristRecords classifies the single last-known location (or null)
TouristRecordsRender ==
  /\ site = "none"
  /\ site' = "TouristRecords"
  /\ shown' = IF Len(batch) = 0 THEN <<>> ELSE <<batch[1]>>
  /\ classes' = IF Len(batch) = 0 THEN <<recordLocationStatus(now, NoLocation)>>
                ELSE <<recordLocationStatus(now, batch[1])>>
  /\ UNCHANGED <<batch, now, monVars, efirVars, subVars, listVars, fnVars,
                 nlVars, notifVars, hazardVars, incVars, sosVars, recVars,
                 idxVars>>

NextReduce ==
  \/ LiveLocationMapRender
  \/ SimpleLeafletMapRender
  \/ FetchLocationDataReduce
  \/ TouristMapRender
  \/ TouristRecordsRender

SpecReduce == InitReduce /\ [][NextReduce]_vars

(***************************************************************************)
(* The Tourist Monitoring view (SpecMon).                                  *)
(* Two components of that name exist: TouristMonitoring.tsx reduces the    *)
(* fetched rows to one per tourist inside fetchLocationData and filters    *)
(* afterwards; the version that renders SimpleLeafletMap keeps the raw     *)
(* rows, filters them, and reduces the filtered rows when it renders.      *)
(***************************************************************************)
MonVersions == {"TouristMonitoring", "TouristMonitoringLeaflet"}

\* Date.now() while the view is in use: 12:00:00.000
MonNow == 12 * MsPerHour

MonTimestamps == { [h |-> 10, ms |-> 0], [h |-> 11, ms |-> 0] }

\* the rows inserted while the view is in use: any row of tourist T1, and
\* one safe row of tourist T2
MonLogFields ==
  [tourist_id : {"T1"}, timestamp : MonTimestamps, in_restricted_zone : BOOLEAN]
  \cup [tourist_id : {"T2"}, timestamp : {[h |-> 11, ms |-> 0]},
        in_restricted_zone : {FALSE}]

\* app_a857ad95a4_tourists.name of the tourist embedded in a row
TouristName(tid) ==
  CASE tid = "T1" -> <<"A", "n", "n">>
    [] tid = "T2" -> <<"B", "o", "b">>
    [] tid = "tourist-1" -> <<"J", "o", "h", "n", " ", "S", "m", "i", "t", "h">>
    [] tid = "tourist-2" -> <<"M", "a", "r", "i", "a", " ", "G", "a", "r", "c", "i", "a">>
    [] tid = "tourist-3" -> <<"H", "i", "r", "o", "s", "h", "i", " ", "T", "a", "n", "a", "k", "a">>
    [] tid = "tourist-4" -> <<"E", "m", "m", "a", " ", "W", "i", "l", "s", "o", "n">>
    [] tid = "tourist-5" -> <<"R", "a", "j", " ", "P", "a", "t", "e", "l">>

\* the rows shown when the query fails in the SimpleLeafletMap version;
\* ids sample-1 .. sample-5 are kept as 1001 .. 1005
SampleData ==
  << [id |-> 1001, tourist_id |-> "tourist-1",
      timestamp |-> [h |-> 12, ms |-> 0], in_restricted_zone |-> FALSE],
     [id |-> 1002, tourist_id |-> "tourist-2",
      timestamp |-> [h |-> 11, ms |-> 1800000], in_restricted_zone |-> TRUE],
     [id |-> 1003, tourist_id |-> "tourist-3",
      timestamp |-> [h |-> 10, ms |-> 0], in_restricted_zone |-> FALSE],
     [id |-> 1004, tourist_id |-> "tourist-4",
      timestamp |-> [h |-> 8, ms |-> 0], in_restricted_zone |-> FALSE],
     [id |-> 1005, tourist_id |-> "tourist-5",
      timestamp |-> [h |-> 11, ms |-> 0], in_restricted_zone |-> TRUE] >>

LowerChar(c) ==
  CASE c = "A" -> "a" [] c = "B" -> "b" [] c = "C" -> "c" [] c = "D" -> "d"
    [] c = "E" -> "e" [] c = "F" -> "f" [] c = "G" -> "g" [] c = "H" -> "h"
    [] c = "I" -> "i" [] c = "J" -> "j" [] c = "K" -> "k" [] c = "L" -> "l"
    [] c = "M" -> "m" [] c = "N" -> "n" [] c = "O" -> "o" [] c = "P" -> "p"
    [] c = "Q" -> "q" [] c = "R" -> "r" [] c = "S" -> "s" [] c = "T" -> "t"
    [] c = "U" -> "u" [] c = "V" -> "v" [] c = "W" -> "w" [] c = "X" -> "x"
    [] c = "Y" -> "y" [] c = "Z" -> "z"
    [] OTHER -> c

toLowerCase(str) == [i \in 1..Len(str) |-> LowerChar(str[i])]

\* str.includes(sub)
includes(str, sub) ==
  \E k \in 0..(Len(str) - Len(sub)) : SubSeq(str, k + 1, k + Len(sub)) = sub

\* values typed into the search box
SearchTerms == { <<>>, <<"A", "n">> }

SeverityFilters == {"all", "safe", "restricted"}

\* the options of the time select of each version
TimeFilters(version) ==
  IF version = "TouristMonitoring" THEN {"all", "1h", "24h", "7d"}
  ELSE {"1h", "24h", "7d"}

\* timeThreshold of the switch on timeFilter, in epoch milliseconds
timeThreshold(timeFilter) ==
  CASE timeFilter = "1h" -> MonNow - 1 * MsPerHour
    [] timeFilter = "7d" -> MonNow - 7 * 24 * MsPerHour
    [] OTHER -> MonNow - 24 * MsPerHour

bySearch(locs, searchTerm) ==
  IF searchTerm # <<>>
  THEN SelectSeq(locs, LAMBDA l :
         includes(toLowerCase(TouristName(l.tourist_id)), toLowerCase(searchTerm)))
  ELSE locs

bySeverity(locs, severityFilter) ==
  CASE severityFilter = "restricted" -> SelectSeq(locs, LAMBDA l : l.in_restricted_zone)
    [] severityFilter = "safe" -> SelectSeq(locs, LAMBDA l : ~l.in_restricted_zone)
    [] OTHER -> locs

byTime(locs, timeFilter) ==
  IF timeFilter # "all"
  THEN SelectSeq(locs, LAMBDA l : getTime(l.timestamp) >= timeThreshold(timeFilter))
  ELSE locs

\* filterLocations of TouristMonitoring.tsx
filterLocations(locs, searchTerm, severityFilter, timeFilter) ==
  byTime(bySeverity(bySearch(locs, searchTerm), severityFilter), timeFilter)

\* filterLocations of the SimpleLeafletMap version
filterLocationsLeaflet(locs, searchTerm, severityFilter) ==
  bySeverity(bySearch(locs, searchTerm), severityFilter)

\* the value of filteredLocations once the filter effect has run
Filtered(version, locs, searchTerm, severityFilter, timeFilter) ==
  IF version = "TouristMonitoring"
  THEN filterLocations(locs, searchTerm, severityFilter, timeFilter)
  ELSE filterLocationsLeaflet(locs, searchTerm, severityFilter)

\* the orders in which the backend may return rows under
\* .order('timestamp', { ascending: false })
OrderedDesc(rows) ==
  LET n == Len(rows)
      Bij == { f \in [1..n -> 1..n] : \A i, j \in 1..n : i # j => f[i] # f[j] }
  IN { [i \in 1..n |-> rows[f[i]]] : f \in
         { g \in Bij : \A i, j \in 1..n :
             i < j => getTime(rows[g[i]].timestamp) >= getTime(rows[g[j]].timestamp) } }

\* the rows a query selects: all of them, or those with timestamp >= gte
Selected(rows, gte) ==
  IF gte = -1 THEN rows
  ELSE SelectSeq(rows, LAMBDA l : getTime(l.timestamp) >= gte)

\* the records the view presents as current tourist positions
MonShown ==
  IF monVersion = "TouristMonitoring" THEN monFiltered
  ELSE latestLocationsByTourist(monFiltered)

InitMon ==
  /\ IdxIdle
  /\ RecIdle
  /\ SosIdle
  /\ IncIdle
  /\ HazardIdle
  /\ NotifIdle
  /\ NlIdle
  /\ ReduceIdle
  /\ EfirIdle
  /\ SubIdle
  /\ ListIdle
  /\ FnIdle
  /\ monVersion \in MonVersions
  /\ logs = <<>>
  /\ monLocations = <<>>
  /\ monFiltered = <<>>
  /\ monLoading = TRUE
  /\ monSearch = <<>>
  /\ monTime = (IF monVersion = "TouristMonitoring" THEN "all" ELSE "24h")
  /\ monSeverity = "all"
  /\ monReqs = { [seq |-> 1, stage |-> "sent", ok |-> TRUE, data |-> <<>>,
                  gte |-> IF monVersion = "TouristMonitoring" THEN -1
                          ELSE timeThreshold("24h")] }
  /\ monNextReq = 1
  /\ monData = <<>>
  /\ monLastSeq = 0
  /\ monMaxSeq = 0
  /\ monToast = "none"
  /\ monHeal = "none"

\* the first half of fetchLocationData: setLoading(true) and the query
StartFetch(timeFilter) ==
  /\ monNextReq < MaxFetches
  /\ monNextReq' = monNextReq + 1
  /\ monLoading' = TRUE
  /\ monReqs' = monReqs \cup
       { [seq |-> monNextReq + 1, stage |-> "sent", ok |-> TRUE, data |-> <<>>,
          gte |-> IF monVersion = "TouristMonitoring" THEN -1
                  ELSE timeThreshold(timeFilter)] }

\* monHeal is "none" until a notification is missed, "missed" from a missed
\* notification to the next delivered one, "notified" from there on, and
\* "failed" once a fetch has failed after that delivery.

\* a row is inserted into the table and the change notification is missed
InsertLog ==
  \E f \in MonLogFields :
    /\ Len(logs) < MaxRows
    /\ logs' = Append(logs, WithId(f, Len(logs) + 1))
    /\ monHeal' = "missed"
    /\ UNCHANGED <<monVersion, monLocations, monFiltered, monLoading, monSearch,
                   monTime, monSeverity, monReqs, monNextReq, monData,
                   monLastSeq, monMaxSeq, monToast,
                   reduceVars, efirVars, subVars, listVars, fnVars, nlVars,
                   notifVars, hazardVars, incVars, sosVars, recVars, idxVars>>

\* a row is inserted into the table and the change notification reaches the
\* postgres_changes callback: () => fetchLocationData()
InsertLogNotified ==
  \E f \in MonLogFields :
    /\ Len(logs) < MaxRows
    /\ logs' = Append(logs, WithId(f, Len(logs) + 1))
    /\ StartFetch(monTime)
    /\ monHeal' = (IF monHeal = "none" THEN "none" ELSE "notified")
    /\ UNCHANGED <<monVersion, monLocations, monFiltered, monSearch, monTime,
                   monSeverity, monData, monLastSeq, monMaxSeq, monToast,
                   reduceVars, efirVars, subVars, listVars, fnVars, nlVars,
                   notifVars, hazardVars, incVars, sosVars, recVars, idxVars>>

\* the Refresh button, disabled while loading
RefreshClick ==
  /\ ~monLoading
  /\ StartFetch(monTime)
  /\ UNCHANGED <<monVersion, logs, monLocations, monFiltered, monSearch, monTime,
                 monSeverity, monData, monLastSeq, monMaxSeq, monToast, monHeal,
                   reduceVars, efirVars, subVars, listVars, fnVars, nlVars,
                 notifVars, hazardVars, incVars, sosVars, recVars, idxVars>>

\* setSearchTerm, then the filter effect
SetSearchTerm ==
  \E term \in SearchTerms :
    /\ term # monSearch
    /\ monSearch' = term
    /\ monFiltered' = Filtered(monVersion, monLocations, term, monSeverity, monTime)
    /\ UNCHANGED <<monVersion, logs, monLocations, monLoading, monTime, monSeverity,
                   monReqs, monNextReq, monData, monLastSeq, monMaxSeq, monToast, monHeal,
                   reduceVars, efirVars, subVars, listVars, fnVars, nlVars,
                   notifVars, hazardVars, incVars, sosVars, recVars, idxVars>>

\* setSeverityFilter, then the filter effect
SetSeverityFilter ==
  \E sev \in SeverityFilters :
    /\ sev # monSeverity
    /\ monSeverity' = sev
    /\ monFiltered' = Filtered(monVersion, monLocations, monSearch, sev, monTime)
    /\ UNCHANGED <<monVersion, logs, monLocations, monLoading, monSearch, monTime,
                   monReqs, monNextReq, monData, monLastSeq, monMaxSeq, monToast, monHeal,
                   reduceVars, efirVars, subVars, listVars, fnVars, nlVars,
                   notifVars, hazardVars, incVars, sosVars, recVars, idxVars>>

\* setTimeFilter in TouristMonitoring.tsx: the filter effect runs
SetTimeFilter ==
  \E t \in TimeFilters(monVersion) :
    /\ monVersion = "TouristMonitoring"
    /\ t # monTime
    /\ monTime' = t
    /\ monFiltered' = Filtered(monVersion, monLocations, monSearch, monSeverity, t)
    /\ UNCHANGED <<monVersion, logs, monLocations, monLoading, monSearch, monSeverity,
                   monReqs, monNextReq, monData, monLastSeq, monMaxSeq, monToast, monHeal,
                   reduceVars, efirVars, subVars, listVars, fnVars, nlVars,
                   notifVars, hazardVars, incVars, sosVars, recVars, idxVars>>

\* setTimeFilter in the SimpleLeafletMap version: the subscription effect
\* depends on timeFilter and calls fetchLocationData again
SetTimeFilterRefetch ==
  \E t \in TimeFilters(monVersion) :
    /\ monVersion = "TouristMonitoringLeaflet"
    /\ t # monTime
    /\ monTime' = t
    /\ StartFetch(t)
    /\ UNCHANGED <<monVersion, logs, monLocations, monFiltered, monSearch,
                   monSeverity, monData, monLastSeq, monMaxSeq, monToast, monHeal,
                   reduceVars, efirVars, subVars, listVars, fnVars, nlVars,
                   notifVars, hazardVars, incVars, sosVars, recVars, idxVars>>

\* the backend answers a query: an error, or the selected rows in
\* descending timestamp order
ServeFetch ==
  \E r \in monReqs :
    /\ r.stage = "sent"
    /\ \/ monReqs' = (monReqs \ {r}) \cup {[r EXCEPT !.stage = "served", !.ok = FALSE]}
       \/ \E d \in OrderedDesc(Selected(logs, r.gte)) :
            monReqs' = (monReqs \ {r}) \cup {[r EXCEPT !.stage = "served", !.data = d]}
    /\ UNCHANGED <<monVersion, logs, monLocations, monFiltered, monLoading, monSearch,
                   monTime, monSeverity, monNextReq, monData, monLastSeq,
                   monMaxSeq, monToast, monHeal,
                   reduceVars, efirVars, subVars, listVars, fnVars, nlVars,
                   notifVars, hazardVars, incVars, sosVars, recVars, idxVars>>

\* the value given to setLocations when the response r carries no error
locationsOf(version, r) ==
  IF version = "TouristMonitoring" THEN latestLocations(r.data) ELSE r.data

\* ResolveFetchOk with a guard that drops the response of a fetch started
\* before one that has already resolved
ResolveFetchOkNewestOnly(r) ==
  /\ r.stage = "served"
  /\ r.ok
  /\ monReqs' = monReqs \ {r}
  /\ monLocations' = (IF r.seq < monMaxSeq THEN monLocations
                      ELSE locationsOf(monVersion, r))
  /\ monFiltered' = Filtered(monVersion,
                             IF r.seq < monMaxSeq THEN monLocations
                             ELSE locationsOf(monVersion, r),
                             monSearch, monSeverity, monTime)
  /\ monLoading' = FALSE
  /\ monData' = r.data
  /\ monLastSeq' = r.seq
  /\ monMaxSeq' = IF r.seq > monMaxSeq THEN r.seq ELSE monMaxSeq
  /\ UNCHANGED <<monVersion, logs, monSearch, monTime, monSeverity, monNextReq,
                 monToast, monHeal,
                 reduceVars, efirVars, subVars, listVars, fnVars, nlVars,
                 notifVars, hazardVars, incVars, sosVars, recVars, idxVars>>

\* ResolveFetchOk patching the cache: the rows of the response the cache
\* does not hold yet are added in front of it
ResolveFetchOkPatch(r) ==
  /\ r.stage = "served"
  /\ r.ok
  /\ monReqs' = monReqs \ {r}
  /\ LET held == {monLocations[i] : i \in 1..Len(monLocations)}
         patched == SelectSeq(locationsOf(monVersion, r), LAMBDA l : l \notin held)
                      \o monLocations
     IN /\ monLocations' = patched
        /\ monFiltered' = Filtered(monVersion, patched, monSearch, monSeverity, monTime)
  /\ monLoading' = FALSE
  /\ monData' = r.data
  /\ monLastSeq' = r.seq
  /\ monMaxSeq' = IF r.seq > monMaxSeq THEN r.seq ELSE monMaxSeq
  /\ UNCHANGED <<monVersion, logs, monSearch, monTime, monSeverity, monNextReq,
                 monToast, monHeal, reduceVars, efirVars, subVars, listVars, fnVars,
                 nlVars, notifVars, hazardVars, incVars, sosVars, recVars,
                 idxVars>>

\* the rest of fetchLocationData for a response without error:
\* setLocations, setLoading(false), then the filter effect
ResolveFetchOk(r) ==
  /\ r.stage = "served"
  /\ r.ok
  /\ monReqs' = monReqs \ {r}
  /\ monLocations' = locationsOf(monVersion, r)
  /\ monFiltered' = Filtered(monVersion, locationsOf(monVersion, r), monSearch,
                             monSeverity, monTime)
  /\ monLoading' = FALSE
  /\ monData' = r.data
  /\ monLastSeq' = r.seq
  /\ monMaxSeq' = IF r.seq > monMaxSeq THEN r.seq ELSE monMaxSeq
  /\ UNCHANGED <<monVersion, logs, monSearch, monTime, monSeverity, monNextReq,
                 monToast, monHeal,
                 reduceVars, efirVars, subVars, listVars, fnVars, nlVars,
                 notifVars, hazardVars, incVars, sosVars, recVars, idxVars>>

\* the rest of fetchLocationData for an error: TouristMonitoring.tsx shows a
\* toast and keeps its locations; the SimpleLeafletMap version shows the
\* sample rows
ResolveFetchError(r) ==
  /\ r.stage = "served"
  /\ ~r.ok
  /\ monReqs' = monReqs \ {r}
  /\ monLocations' = (IF monVersion = "TouristMonitoring" THEN monLocations
                      ELSE SampleData)
  /\ monFiltered' = Filtered(monVersion,
                             IF monVersion = "TouristMonitoring" THEN monLocations
                             ELSE SampleData,
                             monSearch, monSeverity, monTime)
  /\ monLoading' = FALSE
  /\ monToast' = (IF monVersion = "TouristMonitoring" THEN "Error" ELSE "Demo Mode")
  /\ monHeal' = (IF monHeal = "notified" THEN "failed" ELSE monHeal)
  /\ UNCHANGED <<monVersion, logs, monSearch, monTime, monSeverity, monNextReq,
                 monData, monLastSeq, monMaxSeq,
                 reduceVars, efirVars, subVars, listVars, fnVars, nlVars,
                 notifVars, hazardVars, incVars, sosVars, recVars, idxVars>>

ResolveFetch ==
  \E r \in monReqs : ResolveFetchOk(r) \/ ResolveFetchError(r)

NextMon ==
  \/ InsertLog
  \/ InsertLogNotified
  \/ RefreshClick
  \/ SetSearchTerm
  \/ SetSeverityFilter
  \/ SetTimeFilter
  \/ SetTimeFilterRefetch
  \/ ServeFetch
  \/ ResolveFetch

SpecMon == InitMon /\ [][NextMon]_vars

(***************************************************************************)
(* E-FIR Management (SpecEfir).                                            *)
(* The table is the one the migration creates; each view is one mounted    *)
(* EfirManagement component (one per operator session).  The search and    *)
(* status filters only hide rows and are left out: every cached row is     *)
(* displayed.                                                              *)
(***************************************************************************)
EfirIds == {"e1"}

EfirViews == {"v1", "v2"}

\* CHECK (status IN ('Pending', 'Filed', 'Closed')) of the migration
StatusCheckResolved(status) == status \in {"Pending", "Filed", "Resolved"}

StatusCheck(status) == status \in {"Pending", "Filed", "Closed"}

\* the statuses the buttons and counters of the view name, and the one only
\* the migration names
EfirStatuses == {"Pending", "Filed", "Resolved", "Closed"}

\* statusActions that also lets a Pending row be marked Resolved
statusActionsSkip(status) ==
  IF status = "Pending" THEN {"Filed", "Resolved"}
  ELSE IF status = "Filed" THEN {"Resolved"}
  ELSE {}

\* the new statuses the buttons rendered for a row of the given status pass
\* to updateEfirStatus
statusActions(status) ==
  IF status = "Pending" THEN {"Filed"}
  ELSE IF status = "Filed" THEN {"Resolved"}
  ELSE {}

\* filed_at of a row that was never filed (SQL NULL); in the updates of a
\* call, that they carry no filed_at
NoFiledAt == 0

\* updatesFiledAt with filed_at set whatever the new status
updatesFiledAtAlways(newStatus, nowIso) == nowIso

\* filed_at of the `updates` updateEfirStatus builds: new Date() when the new
\* status is 'Filed', absent otherwise
updatesFiledAt(newStatus, nowIso) ==
  IF newStatus = "Filed" THEN nowIso ELSE NoFiledAt

InitEfir ==
  /\ IdxIdle
  /\ RecIdle
  /\ SosIdle
  /\ IncIdle
  /\ HazardIdle
  /\ NotifIdle
  /\ NlIdle
  /\ ReduceIdle
  /\ MonIdle
  /\ SubIdle
  /\ ListIdle
  /\ FnIdle
  /\ efirRows \in [EfirIds -> [status : {s \in EfirStatuses : StatusCheck(s)},
                               filed_at : {NoFiledAt}]]
  /\ efirs = [v \in EfirViews |-> <<>>]
  /\ efirCalls = {}
  /\ efirFetches = { [view |-> v, stage |-> "sent", data |-> <<>>] : v \in EfirViews }
  /\ efirClock = 0

\* a click on `Mark as Filed` or `Mark as Resolved`: updateEfirStatus builds
\* the updates and sends them
ClickStatusButton ==
  \E v \in EfirViews, id \in EfirIds, newStatus \in EfirStatuses :
    /\ efirClock < MaxClicks
    /\ id \in DOMAIN efirs[v]
    /\ newStatus \in statusActions(efirs[v][id].status)
    /\ efirClock' = efirClock + 1
    /\ efirCalls' = efirCalls \cup
         { [view |-> v, id |-> id, newStatus |-> newStatus,
            filed_at |-> updatesFiledAt(newStatus, efirClock + 1),
            displayed |-> efirs[v][id].status,
            stage |-> "sent", ok |-> TRUE, prev |-> "none"] }
    /\ UNCHANGED <<efirRows, efirs, efirFetches, reduceVars, monVars, subVars,
                   listVars, fnVars, nlVars, notifVars, hazardVars, incVars,
                   sosVars, recVars, idxVars>>

\* the table receives .update(updates).eq('id', efirId): the CHECK on status
\* accepts or rejects it
BackendUpdate ==
  \E c \in efirCalls :
    /\ c.stage = "sent"
    /\ IF StatusCheck(c.newStatus)
       THEN /\ efirRows' = [efirRows EXCEPT ![c.id] =
                 [status |-> c.newStatus,
                  filed_at |-> IF c.filed_at # NoFiledAt THEN c.filed_at
                               ELSE efirRows[c.id].filed_at]]
            /\ efirCalls' = (efirCalls \ {c}) \cup
                 {[c EXCEPT !.stage = "done", !.prev = efirRows[c.id].status]}
       ELSE /\ efirRows' = efirRows
            /\ efirCalls' = (efirCalls \ {c}) \cup
                 {[c EXCEPT !.stage = "done", !.ok = FALSE,
                            !.prev = efirRows[c.id].status]}
    /\ UNCHANGED <<efirs, efirFetches, efirClock, reduceVars, monVars, subVars,
                   listVars, fnVars, nlVars, notifVars, hazardVars, incVars,
                   sosVars, recVars, idxVars>>

\* updateEfirStatus after the await: a success toast and fetchEfirs(), or
\* the error toast
UpdateReturn ==
  \E c \in efirCalls :
    /\ c.stage = "done"
    /\ efirCalls' = efirCalls \ {c}
    /\ efirFetches' = IF c.ok
                      THEN efirFetches \cup {[view |-> c.view, stage |-> "sent", data |-> <<>>]}
                      ELSE efirFetches
    /\ UNCHANGED <<efirRows, efirs, efirClock, reduceVars, monVars, subVars,
                   listVars, fnVars, nlVars, notifVars, hazardVars, incVars,
                   sosVars, recVars, idxVars>>

\* the table answers the select of fetchEfirs
ServeEfirs ==
  \E f \in efirFetches :
    /\ f.stage = "sent"
    /\ efirFetches' = (efirFetches \ {f}) \cup
         {[f EXCEPT !.stage = "served", !.data = efirRows]}
    /\ UNCHANGED <<efirRows, efirs, efirCalls, efirClock, reduceVars, monVars, subVars,
                   listVars, fnVars, nlVars, notifVars, hazardVars, incVars,
                   sosVars, recVars, idxVars>>

\* fetchEfirs after the await: setEfirs(data)
FetchEfirsReturn ==
  \E f \in efirFetches :
    /\ f.stage = "served"
    /\ efirFetches' = efirFetches \ {f}
    /\ efirs' = [efirs EXCEPT ![f.view] = f.data]
    /\ UNCHANGED <<efirRows, efirCalls, efirClock, reduceVars, monVars, subVars,
                   listVars, fnVars, nlVars, notifVars, hazardVars, incVars,
                   sosVars, recVars, idxVars>>

NextEfir ==
  \/ ClickStatusButton
  \/ BackendUpdate
  \/ UpdateReturn
  \/ ServeEfirs
  \/ FetchEfirsReturn

SpecEfir == InitEfir /\ [][NextEfir]_vars

(***************************************************************************)
(* Realtime channels (SpecSub).                                            *)
(* Index renders one view at a time; a view's effects open channels on     *)
(* the supabase client and their cleanups remove them.  A commit is the    *)
(* list of cleanups and effects React still has to run: the cleanups of    *)
(* the effects that go away or re-run first, then the new runs.            *)
(* removeChannel is taken to remove the channel from the client at once.   *)
(***************************************************************************)
MaxRuns == 7

\* currentView of Index; the views without a channel are "other"
SubViews == {"dashboard", "monitoring", "incidents", "other"}

IncidentsTable == "app_a857ad95a4_incidents"

AlertsTable == "app_a857ad95a4_alerts"

LocationLogsTable == "app_a857ad95a4_location_logs"

Effects ==
  {"DashboardHome", "TouristMonitoring", "TouristMonitoringLeaflet",
   "SosIncidentsPage", "NotificationSystem.incidents", "NotificationSystem.alerts"}

\* the subscription effects a view mounts, children before the parent
EffectsOf(view, version) ==
  IF view = "dashboard" THEN <<"DashboardHome">>
  ELSE IF view = "monitoring" THEN <<version>>
  ELSE IF view = "incidents"
    THEN <<"NotificationSystem.incidents", "NotificationSystem.alerts",
           "SosIncidentsPage">>
  ELSE <<>>

\* the channels one run of an effect opens, in the order it opens them
ChannelsOf(effect) ==
  IF effect = "DashboardHome"
    THEN <<[name |-> "dashboard-incidents", table |-> IncidentsTable],
           [name |-> "dashboard-alerts", table |-> AlertsTable]>>
  ELSE IF effect \in {"TouristMonitoring", "TouristMonitoringLeaflet"}
    THEN <<[name |-> "location-monitoring", table |-> LocationLogsTable]>>
  ELSE IF effect = "SosIncidentsPage"
    THEN <<[name |-> "sos-alerts", table |-> AlertsTable],
           [name |-> "incidents", table |-> IncidentsTable]>>
  ELSE IF effect = "NotificationSystem.incidents"
    THEN <<[name |-> "admin-incidents-notifications", table |-> IncidentsTable]>>
  ELSE <<[name |-> "admin-alerts-notifications", table |-> AlertsTable]>>

\* the effects whose dependency list holds timeFilter
TimeFilterDependents(view, version) ==
  IF view = "monitoring" /\ version = "TouristMonitoringLeaflet"
    THEN <<"TouristMonitoringLeaflet">>
  ELSE <<>>

\* the effects whose dependency list holds onIncidentAlert or onSosAlert:
\* SosIncidentsPage passes both as inline functions, new at every render
CallbackDependents ==
  <<"NotificationSystem.incidents", "NotificationSystem.alerts">>

\* the effects whose dependency list changes when useToast returns a new
\* toast: those that list toast or a callback made from it
ToastDependents(view, version) ==
  IF view = "monitoring" /\ version = "TouristMonitoring"
    THEN <<"TouristMonitoring">>
  ELSE IF view = "incidents"
    THEN <<"NotificationSystem.incidents", "NotificationSystem.alerts",
           "SosIncidentsPage">>
  ELSE <<>>

InitialTimeFilter(view, version) ==
  IF view = "monitoring" /\ version = "TouristMonitoring" THEN "all"
  ELSE IF view \in {"monitoring", "incidents"} THEN "24h"
  ELSE "none"

\* the time filters the mounted view lets the operator select
SubTimeFilters(view, version) ==
  IF view = "monitoring" THEN TimeFilters(version) ELSE {}

Cleanups(effects) == [i \in 1..Len(effects) |-> [op |-> "cleanup", effect |-> effects[i]]]

Runs(effects) == [i \in 1..Len(effects) |-> [op |-> "run", effect |-> effects[i]]]

\* the channels the cleanup of a run removes, when only the first channel
\* the run opened is removed
cleanupRemovesFirstOnly(effect, run) ==
  {c \in subChannels :
     c.effect = effect /\ c.run = run /\ c.name = ChannelsOf(effect)[1].name}

\* the channels the cleanup of a run removes: the ones that run opened
cleanupRemoves(effect, run) ==
  {c \in subChannels : c.effect = effect /\ c.run = run}

InitSub ==
  /\ IdxIdle
  /\ RecIdle
  /\ SosIdle
  /\ IncIdle
  /\ HazardIdle
  /\ NotifIdle
  /\ NlIdle
  /\ ReduceIdle
  /\ MonIdle
  /\ EfirIdle
  /\ ListIdle
  /\ FnIdle
  /\ subView = "none"
  /\ subVersion \in MonVersions
  /\ subTimeFilter = "none"
  /\ subChannels = {}
  /\ subRuns = [e \in Effects |-> 0]
  /\ subNextRun = 1
  /\ subPending = <<>>
  /\ subOpened = {}

\* a commit that unmounts `gone`, re-runs nothing else and mounts `come`
Commit(gone, come) ==
  /\ subPending = <<>>
  /\ subNextRun + Len(come) <= MaxRuns + 1
  /\ subPending' = Cleanups(gone) \o Runs(come)

\* Index: the session arrives and the dashboard is rendered
Login ==
  /\ subView = "none"
  /\ Commit(<<>>, EffectsOf("dashboard", subVersion))
  /\ subView' = "dashboard"
  /\ subTimeFilter' = InitialTimeFilter("dashboard", subVersion)
  /\ UNCHANGED <<subVersion, subChannels, subRuns, subNextRun, subOpened,
                 reduceVars, monVars, efirVars, listVars, fnVars, nlVars,
                 notifVars, hazardVars, incVars, sosVars, recVars, idxVars>>

\* Index: onViewChange
SetCurrentView ==
  \E view \in SubViews :
    /\ subView # "none"
    /\ view # subView
    /\ Commit(EffectsOf(subView, subVersion), EffectsOf(view, subVersion))
    /\ subView' = view
    /\ subTimeFilter' = InitialTimeFilter(view, subVersion)
    /\ UNCHANGED <<subVersion, subChannels, subRuns, subNextRun, subOpened,
                   reduceVars, monVars, efirVars, listVars, fnVars, nlVars,
                   notifVars, hazardVars, incVars, sosVars, recVars, idxVars>>

\* Index: handleLogout, the session goes and the login page is rendered
Logout ==
  /\ subView # "none"
  /\ Commit(EffectsOf(subView, subVersion), <<>>)
  /\ subView' = "none"
  /\ subTimeFilter' = "none"
  /\ UNCHANGED <<subVersion, subChannels, subRuns, subNextRun, subOpened,
                 reduceVars, monVars, efirVars, listVars, fnVars, nlVars,
                 notifVars, hazardVars, incVars, sosVars, recVars, idxVars>>

\* SosIncidentsPage renders again (a tab, the search term, fetched rows)
SosIncidentsPageRender ==
  /\ subView = "incidents"
  /\ Commit(CallbackDependents, CallbackDependents)
  /\ UNCHANGED <<subView, subVersion, subTimeFilter, subChannels, subRuns,
                 subNextRun, subOpened, reduceVars, monVars, efirVars, listVars, fnVars,
                 nlVars, notifVars, hazardVars, incVars, sosVars, recVars,
                 idxVars>>

\* the time filter of the Tourist Monitoring view changes
SubSetTimeFilter ==
  \E timeFilter \in SubTimeFilters(subView, subVersion) :
    /\ timeFilter # subTimeFilter
    /\ Commit(TimeFilterDependents(subView, subVersion),
              TimeFilterDependents(subView, subVersion))
    /\ subTimeFilter' = timeFilter
    /\ UNCHANGED <<subView, subVersion, subChannels, subRuns, subNextRun,
                   subOpened, reduceVars, monVars, efirVars, listVars, fnVars,
                   nlVars, notifVars, hazardVars, incVars, sosVars, recVars,
                   idxVars>>

\* useToast hands the mounted view a new toast function
ToastIdentityChange ==
  /\ ToastDependents(subView, subVersion) # <<>>
  /\ Commit(ToastDependents(subView, subVersion),
            ToastDependents(subView, subVersion))
  /\ UNCHANGED <<subView, subVersion, subTimeFilter, subChannels, subRuns,
                 subNextRun, subOpened, reduceVars, monVars, efirVars, listVars, fnVars,
                 nlVars, notifVars, hazardVars, incVars, sosVars, recVars,
                 idxVars>>

\* the next effect of the commit runs: supabase.channel(...).subscribe()
RunEffect ==
  /\ subPending # <<>>
  /\ Head(subPending).op = "run"
  /\ LET effect == Head(subPending).effect
         opened == {[name |-> ChannelsOf(effect)[i].name,
                     table |-> ChannelsOf(effect)[i].table,
                     view |-> subView, effect |-> effect, run |-> subNextRun] :
                      i \in 1..Len(ChannelsOf(effect))}
     IN /\ subChannels' = subChannels \cup opened
        /\ subOpened' = subOpened \cup opened
        /\ subRuns' = [subRuns EXCEPT ![effect] = subNextRun]
  /\ subNextRun' = subNextRun + 1
  /\ subPending' = Tail(subPending)
  /\ UNCHANGED <<subView, subVersion, subTimeFilter, reduceVars, monVars, efirVars,
                 listVars, fnVars, nlVars, notifVars, hazardVars, incVars,
                 sosVars, recVars, idxVars>>

\* the next cleanup of the commit runs: supabase.removeChannel(...)
RunCleanup ==
  /\ subPending # <<>>
  /\ Head(subPending).op = "cleanup"
  /\ LET effect == Head(subPending).effect
     IN /\ subChannels' = subChannels \ cleanupRemoves(effect, subRuns[effect])
        /\ subRuns' = [subRuns EXCEPT ![effect] = 0]
  /\ subPending' = Tail(subPending)
  /\ UNCHANGED <<subView, subVersion, subTimeFilter, subNextRun, subOpened,
                 reduceVars, monVars, efirVars, listVars, fnVars, nlVars,
                 notifVars, hazardVars, incVars, sosVars, recVars, idxVars>>

NextSub ==
  \/ Login
  \/ SetCurrentView
  \/ Logout
  \/ SosIncidentsPageRender
  \/ SubSetTimeFilter
  \/ ToastIdentityChange
  \/ RunEffect
  \/ RunCleanup

SpecSub == InitSub /\ [][NextSub]_vars

(***************************************************************************)
(* The incident and E-FIR lists (SpecList, SpecListFn).                    *)
(* A string is the sequence of its characters; null and undefined are the  *)
(* value Null, a string s that is present is Some(s).                      *)
(***************************************************************************)
MaxIncidents == 2

MaxFnRows == 3

MaxFnEfirs == 2

Null == [null |-> TRUE, str |-> <<>>]

Some(str) == [null |-> FALSE, str |-> str]

\* the characters in the order of their UTF-16 code units
CodeOrder ==
  <<" ", "0", "1", "2", "3", "4", "5", "6", "7", "8", "9",
    "A", "B", "C", "D", "E", "F", "G", "H", "I", "J", "K", "L", "M",
    "N", "O", "P", "Q", "R", "S", "T", "U", "V", "W", "X", "Y", "Z", "_",
    "a", "b", "c", "d", "e", "f", "g", "h", "i", "j", "k", "l", "m",
    "n", "o", "p", "q", "r", "s", "t", "u", "v", "w", "x", "y", "z">>

CharCode(c) == CHOOSE i \in 1..Len(CodeOrder) : CodeOrder[i] = c

\* a < b on strings: the first differing code unit decides, a proper prefix
\* is smaller
RECURSIVE StrLess(_, _)
StrLess(a, b) ==
  IF b = <<>> THEN FALSE
  ELSE IF a = <<>> THEN TRUE
  ELSE IF Head(a) = Head(b) THEN StrLess(Tail(a), Tail(b))
  ELSE CharCode(Head(a)) < CharCode(Head(b))

sAll == <<"a", "l", "l">>

sPending == <<"p", "e", "n", "d", "i", "n", "g">>

sInReview == <<"i", "n", "_", "r", "e", "v", "i", "e", "w">>

sResolved == <<"r", "e", "s", "o", "l", "v", "e", "d">>

sActive == <<"a", "c", "t", "i", "v", "e">>

sFiled == <<"f", "i", "l", "e", "d">>

sCreatedAt == <<"c", "r", "e", "a", "t", "e", "d", "_", "a", "t">>

sStatus == <<"s", "t", "a", "t", "u", "s">>

sTourist == <<"t", "o", "u", "r", "i", "s", "t">>

\* the values of the status Select of the incidents list
IncidentStatusOptions == {sAll, sPending, sInReview, sResolved}

\* the values of the sort Select of the incidents list
SortByOptions == {sCreatedAt, sStatus, sTourist}

\* text typed into the search box of the incidents list
IncidentSearchTerms == {<<>>, <<"A", "n">>, <<"f", "a">>}

\* status values found in app_a857ad95a4_incidents: 'pending' of the list,
\* and 'active' of the rows the map's test panel creates
IncidentStatuses == {sPending, sActive}

\* the columns of an incident row that the list reads, but for id,
\* incident_id and created_at: the embedded tourist may be missing, the
\* description may be null
IncidentFields ==
  [tourist : {Some(<<"A", "n", "n">>), Null},
   description : {Some(<<"F", "a", "l", "l">>), Null},
   status : IncidentStatuses]

IncidentIdOf(i) == <<"I", "N", "C", CodeOrder[i + 2]>>

\* row number i of a fetch, with created_at the timestamp t
IncidentRow(f, i, t) ==
  [id |-> i, incident_id |-> IncidentIdOf(i), created_at |-> t,
   tourist |-> f.tourist, description |-> f.description, status |-> f.status]

\* .order('created_at', { ascending: false })
CreatedDescending(ts) ==
  \A i, j \in DOMAIN ts : i < j => getTime(ts[i]) >= getTime(ts[j])

\* the arrays fetchIncidents can store: up to n rows, newest first
FetchedIncidents(n, times) ==
  UNION { { [i \in 1..k |-> IncidentRow(fs[i], i, ts[i])] :
              fs \in [1..k -> IncidentFields],
              ts \in { t \in [1..k -> times] : CreatedDescending(t) } } :
          k \in 0..n }

\* one call of the callback of filter on the search term: "throw" stands
\* for the TypeError of null.toLowerCase()
searchMatch(incident, searchTerm) ==
  IF ~incident.tourist.null
     /\ includes(toLowerCase(incident.tourist.str), toLowerCase(searchTerm))
    THEN "true"
  ELSE IF incident.description.null THEN "throw"
  ELSE IF includes(toLowerCase(incident.description.str), toLowerCase(searchTerm))
    THEN "true"
  ELSE IF includes(toLowerCase(incident.incident_id), toLowerCase(searchTerm))
    THEN "true"
  ELSE "false"

\* the value the sort compares for a row
sortValue(incident, sortBy) ==
  IF sortBy = sStatus THEN incident.status
  ELSE IF incident.tourist.null THEN <<>> ELSE incident.tourist.str

\* the comparator of the sort with the order taken as ascending whatever
\* sortOrder says
compareAscendingOnly(a, b, sortBy, sortOrder) ==
  IF sortBy = sCreatedAt
  THEN (IF getTime(a.created_at) < getTime(b.created_at) THEN -1
        ELSE IF getTime(a.created_at) > getTime(b.created_at) THEN 1
        ELSE 0)
  ELSE (IF StrLess(sortValue(a, sortBy), sortValue(b, sortBy)) THEN -1
        ELSE IF StrLess(sortValue(b, sortBy), sortValue(a, sortBy)) THEN 1
        ELSE 0)

\* the comparator handed to filtered.sort
compare(a, b, sortBy, sortOrder) ==
  IF sortBy = sCreatedAt
  THEN (IF getTime(a.created_at) < getTime(b.created_at)
          THEN (IF sortOrder = "asc" THEN -1 ELSE 1)
        ELSE IF getTime(a.created_at) > getTime(b.created_at)
          THEN (IF sortOrder = "asc" THEN 1 ELSE -1)
        ELSE 0)
  ELSE (IF StrLess(sortValue(a, sortBy), sortValue(b, sortBy))
          THEN (IF sortOrder = "asc" THEN -1 ELSE 1)
        ELSE IF StrLess(sortValue(b, sortBy), sortValue(a, sortBy))
          THEN (IF sortOrder = "asc" THEN 1 ELSE -1)
        ELSE 0)

\* x put into the sorted list `sorted`, behind every element that does not
\* compare greater than x
RECURSIVE insertSorted(_, _, _, _)
insertSorted(sorted, x, sortBy, sortOrder) ==
  IF sorted = <<>> THEN <<x>>
  ELSE IF compare(Head(sorted), x, sortBy, sortOrder) <= 0
    THEN <<Head(sorted)>> \o insertSorted(Tail(sorted), x, sortBy, sortOrder)
  ELSE <<x>> \o sorted

\* Array.prototype.sort with that comparator: a stable sort
RECURSIVE sort(_, _, _)
sort(list, sortBy, sortOrder) ==
  IF list = <<>> THEN <<>>
  ELSE insertSorted(sort(SubSeq(list, 1, Len(list) - 1), sortBy, sortOrder),
                    list[Len(list)], sortBy, sortOrder)

\* the state of IncidentsList the memo depends on
ListState(searchTerm, statusFilter, sortBy, sortOrder) ==
  [searchTerm |-> searchTerm, statusFilter |-> statusFilter,
   sortBy |-> sortBy, sortOrder |-> sortOrder]

\* filteredAndSortedIncidents: whether it threw, the list it returned, and
\* the incidents array after the call.  Without a search term and with the
\* status filter on 'all', `filtered` is the incidents array itself and
\* the sort reorders that array.
filteredAndSortedIncidents(incidents, c) ==
  LET throws == /\ c.searchTerm # <<>>
                /\ \E i \in 1..Len(incidents) :
                     searchMatch(incidents[i], c.searchTerm) = "throw"
      searched == IF c.searchTerm # <<>>
                  THEN SelectSeq(incidents,
                                 LAMBDA x : searchMatch(x, c.searchTerm) = "true")
                  ELSE incidents
      filtered == IF c.statusFilter # sAll
                  THEN SelectSeq(searched, LAMBDA x : x.status = c.statusFilter)
                  ELSE searched
      sorted == sort(filtered, c.sortBy, c.sortOrder)
      same == c.searchTerm = <<>> /\ c.statusFilter = sAll
  IN IF throws THEN [threw |-> TRUE, list |-> <<>>, incidents |-> incidents]
     ELSE [threw |-> FALSE, list |-> sorted,
           incidents |-> IF same THEN sorted ELSE incidents]

\* setSearchTerm, setStatusFilter and setSortBy on the state of the list
setSearchTerm(c, searchTerm) == [c EXCEPT !.searchTerm = searchTerm]

setStatusFilter(c, statusFilter) == [c EXCEPT !.statusFilter = statusFilter]

setSortBy(c, sortBy) == [c EXCEPT !.sortBy = sortBy]

\* handleSort: no element of the list calls it
handleSort(c, field) ==
  IF c.sortBy = field
  THEN [c EXCEPT !.sortOrder = IF c.sortOrder = "asc" THEN "desc" ELSE "asc"]
  ELSE [c EXCEPT !.sortBy = field, !.sortOrder = "desc"]

\* the states one action of the operator leads to: the search Input and
\* the two Selects are the only controls wired to the state
ExposedSteps(c) ==
  { setSearchTerm(c, t) : t \in IncidentSearchTerms }
    \cup { setStatusFilter(c, v) : v \in IncidentStatusOptions }
    \cup { setSortBy(c, f) : f \in SortByOptions }

\* the states a sequence of the operator's actions leads to from those of S
RECURSIVE ExposedReach(_)
ExposedReach(S) ==
  LET T == S \cup UNION { ExposedSteps(c) : c \in S }
  IN IF T = S THEN S ELSE ExposedReach(T)

\* the arrays setIncidents can store
IncidentArrays == FetchedIncidents(MaxIncidents, MonTimestamps)

IlState == ListState(ilSearchTerm, ilStatusFilter, ilSortBy, ilSortOrder)

\* IncidentsList renders with state c over the incidents array
IlRender(incidents, c) ==
  LET r == filteredAndSortedIncidents(incidents, c)
  IN /\ ilSearchTerm' = c.searchTerm
     /\ ilStatusFilter' = c.statusFilter
     /\ ilSortBy' = c.sortBy
     /\ ilSortOrder' = c.sortOrder
     /\ ilShown' = r.list
     /\ ilThrew' = r.threw
     /\ ilIncidents' = r.incidents

InitList ==
  /\ IdxIdle
  /\ RecIdle
  /\ SosIdle
  /\ IncIdle
  /\ HazardIdle
  /\ NotifIdle
  /\ NlIdle
  /\ ReduceIdle
  /\ MonIdle
  /\ EfirIdle
  /\ SubIdle
  /\ FnIdle
  /\ ilFetched \in IncidentArrays
  /\ ilSearchTerm = <<>>
  /\ ilStatusFilter = sAll
  /\ ilSortBy = sCreatedAt
  /\ ilSortOrder = "desc"
  /\ LET r == filteredAndSortedIncidents(
                ilFetched, ListState(<<>>, sAll, sCreatedAt, "desc"))
     IN /\ ilShown = r.list
        /\ ilThrew = r.threw
        /\ ilIncidents = r.incidents

\* the search Input: onChange
IlSetSearchTerm ==
  \E t \in IncidentSearchTerms :
    /\ ~ilThrew
    /\ t # ilSearchTerm
    /\ IlRender(ilIncidents, setSearchTerm(IlState, t))
    /\ UNCHANGED <<ilFetched, reduceVars, monVars, efirVars, subVars, fnVars,
                   nlVars, notifVars, hazardVars, incVars, sosVars, recVars,
                   idxVars>>

\* the status Select: onValueChange
IlSetStatusFilter ==
  \E v \in IncidentStatusOptions :
    /\ ~ilThrew
    /\ v # ilStatusFilter
    /\ IlRender(ilIncidents, setStatusFilter(IlState, v))
    /\ UNCHANGED <<ilFetched, reduceVars, monVars, efirVars, subVars, fnVars,
                   nlVars, notifVars, hazardVars, incVars, sosVars, recVars,
                   idxVars>>

\* the sort Select: onValueChange
IlSetSortBy ==
  \E f \in SortByOptions :
    /\ ~ilThrew
    /\ f # ilSortBy
    /\ IlRender(ilIncidents, setSortBy(IlState, f))
    /\ UNCHANGED <<ilFetched, reduceVars, monVars, efirVars, subVars, fnVars,
                   nlVars, notifVars, hazardVars, incVars, sosVars, recVars,
                   idxVars>>

\* fetchIncidents of the page resolves: setIncidents(data), and the list
\* renders over the new array
SetIncidents ==
  \E data \in IncidentArrays :
    /\ ~ilThrew
    /\ data # ilFetched
    /\ ilFetched' = data
    /\ IlRender(data, IlState)
    /\ UNCHANGED <<reduceVars, monVars, efirVars, subVars, fnVars, nlVars,
                   notifVars, hazardVars, incVars, sosVars, recVars, idxVars>>

NextList ==
  \/ IlSetSearchTerm
  \/ IlSetStatusFilter
  \/ IlSetSortBy
  \/ SetIncidents

SpecList == InitList /\ [][NextList]_vars

(***************************************************************************)
(* The sort and the status filters as functions (SpecListFn): the lists    *)
(* are drawn from bounded sets, in any order, and each call is made once.  *)
(***************************************************************************)
FnTimestamps == { [h |-> 9, ms |-> 0], [h |-> 10, ms |-> 0], [h |-> 11, ms |-> 0] }

\* incident lists of up to MaxFnRows rows, in any order
FnIncidentLists ==
  UNION { { [i \in 1..k |->
               IncidentRow([tourist |-> Some(<<"A", "n", "n">>),
                            description |-> Some(<<"F", "a", "l", "l">>),
                            status |-> st[i]], i, ts[i])] :
              st \in [1..k -> IncidentStatuses], ts \in [1..k -> FnTimestamps] } :
          k \in 0..MaxFnRows }

\* the status of an E-FIR row as the string the view reads
StatusChars(status) ==
  CASE status = "Pending" -> <<"P", "e", "n", "d", "i", "n", "g">>
    [] status = "Filed" -> <<"F", "i", "l", "e", "d">>
    [] status = "Resolved" -> <<"R", "e", "s", "o", "l", "v", "e", "d">>
    [] status = "Closed" -> <<"C", "l", "o", "s", "e", "d">>

\* the columns of an E-FIR row that the filter effect reads
EfirRow(i, status) ==
  [id |-> i, efir_id |-> <<"E", "F", "I", "R", CodeOrder[i + 2]>>,
   tourist_id |-> <<"T", "1">>, tourist |-> Some(<<"A", "n", "n">>),
   reason |-> <<"T", "h", "e", "f", "t">>, status |-> StatusChars(status)]

\* E-FIR lists of up to MaxFnEfirs rows with a status the table admits
FnEfirLists ==
  UNION { { [i \in 1..k |-> EfirRow(i, st[i])] :
              st \in [1..k -> {s \in EfirStatuses : StatusCheck(s)}] } :
          k \in 0..MaxFnEfirs }

\* the values of the status buttons of E-FIR Management
EfirStatusOptions == {sAll, sPending, sFiled, sResolved}

\* the filter effect of E-FIR Management with the status compared as it
\* is stored
filterEfirsExact(efirList, searchTerm, selectedStatus) ==
  LET searched ==
        IF searchTerm # <<>>
        THEN SelectSeq(efirList, LAMBDA e :
               \/ includes(toLowerCase(e.efir_id), toLowerCase(searchTerm))
               \/ includes(toLowerCase(e.tourist_id), toLowerCase(searchTerm))
               \/ (~e.tourist.null
                   /\ includes(toLowerCase(e.tourist.str), toLowerCase(searchTerm)))
               \/ includes(toLowerCase(e.reason), toLowerCase(searchTerm)))
        ELSE efirList
  IN IF selectedStatus # sAll
     THEN SelectSeq(searched, LAMBDA e : e.status = selectedStatus)
     ELSE searched

\* the filter effect of E-FIR Management: the value of filteredEfirs
filterEfirs(efirList, searchTerm, selectedStatus) ==
  LET searched ==
        IF searchTerm # <<>>
        THEN SelectSeq(efirList, LAMBDA e :
               \/ includes(toLowerCase(e.efir_id), toLowerCase(searchTerm))
               \/ includes(toLowerCase(e.tourist_id), toLowerCase(searchTerm))
               \/ (~e.tourist.null
                   /\ includes(toLowerCase(e.tourist.str), toLowerCase(searchTerm)))
               \/ includes(toLowerCase(e.reason), toLowerCase(searchTerm)))
        ELSE efirList
  IN IF selectedStatus # sAll
     THEN SelectSeq(searched, LAMBDA e : toLowerCase(e.status) = selectedStatus)
     ELSE searched

NotCalled == [called |-> FALSE, arg |-> <<>>, out |-> <<>>]

Called(arg, out) == [called |-> TRUE, arg |-> arg, out |-> out]

InitListFn ==
  /\ IdxIdle
  /\ RecIdle
  /\ SosIdle
  /\ IncIdle
  /\ HazardIdle
  /\ NotifIdle
  /\ NlIdle
  /\ ReduceIdle
  /\ MonIdle
  /\ EfirIdle
  /\ SubIdle
  /\ ListIdle
  /\ fnIncidents \in FnIncidentLists
  /\ fnEfirs \in FnEfirLists
  /\ fnCalls = [asc |-> NotCalled, desc |-> NotCalled, incidents |-> NotCalled,
                efirs |-> NotCalled]

\* the incidents list renders sorted by created_at in the given order,
\* without search term or status filter
SortIncidents ==
  \E order \in {"asc", "desc"} :
    /\ ~fnCalls[order].called
    /\ LET r == filteredAndSortedIncidents(
                  fnIncidents, ListState(<<>>, sAll, sCreatedAt, order))
       IN /\ fnCalls' = [fnCalls EXCEPT ![order] = Called(order, r.list)]
          /\ fnIncidents' = r.incidents
    /\ UNCHANGED <<fnEfirs, reduceVars, monVars, efirVars, subVars, listVars,
                   nlVars, notifVars, hazardVars, incVars, sosVars, recVars,
                   idxVars>>

\* the incidents list renders with a status filter and no search term
FilterIncidents ==
  \E v \in IncidentStatusOptions \ {sAll} :
    /\ ~fnCalls.incidents.called
    /\ LET r == filteredAndSortedIncidents(
                  fnIncidents, ListState(<<>>, v, sCreatedAt, "desc"))
       IN /\ fnCalls' = [fnCalls EXCEPT !.incidents = Called(v, r.list)]
          /\ fnIncidents' = r.incidents
    /\ UNCHANGED <<fnEfirs, reduceVars, monVars, efirVars, subVars, listVars,
                   nlVars, notifVars, hazardVars, incVars, sosVars, recVars,
                   idxVars>>

\* the filter effect of E-FIR Management runs with a status selected and
\* no search term
FilterEfirs ==
  \E v \in EfirStatusOptions \ {sAll} :
    /\ ~fnCalls.efirs.called
    /\ fnCalls' = [fnCalls EXCEPT !.efirs = Called(v, filterEfirs(fnEfirs, <<>>, v))]
    /\ UNCHANGED <<fnIncidents, fnEfirs, reduceVars, monVars, efirVars, subVars,
                   listVars, nlVars, notifVars, hazardVars, incVars, sosVars,
                   recVars, idxVars>>

NextListFn ==
  \/ SortIncidents
  \/ FilterIncidents
  \/ FilterEfirs

SpecListFn == InitListFn /\ [][NextListFn]_vars

(***************************************************************************)
(* The notification list of NotificationSystem (SpecNotifList).            *)
(* A notification is kept as its id and type; the id is payload.new.id of  *)
(* the INSERT event, a row id of the incidents or of the alerts table.     *)
(***************************************************************************)
\* most incident notifications made
MaxListIncidents == 6
\* most SOS notifications made
MaxListAlerts == 6
\* most clicks on the X and Clear All buttons
MaxListClicks == 1

\* the end index of prev.slice(0, 9)
SliceEnd == 9

\* the id of the k-th row of a table
RowId(table, k) == <<table, k>>

NotificationItem(type, id) == [id |-> id, type |-> type]

\* prev.slice(0, end)
slice(prev, end) == SubSeq(prev, 1, IF Len(prev) < end THEN Len(prev) ELSE end)

\* the updater with the slice left out
pushNotificationKeepAll(prev, newNotification) == <<newNotification>> \o prev

\* prev => [newNotification, ...prev.slice(0, 9)]
pushNotification(prev, newNotification) ==
  <<newNotification>> \o slice(prev, SliceEnd)

\* prev => prev.filter(notif => notif.id !== id)
removeNotification(prev, id) == SelectSeq(prev, LAMBDA notif : notif.id # id)

InitNotifList ==
  /\ IdxIdle
  /\ RecIdle
  /\ SosIdle
  /\ IncIdle
  /\ HazardIdle
  /\ NotifIdle
  /\ ReduceIdle
  /\ MonIdle
  /\ EfirIdle
  /\ SubIdle
  /\ ListIdle
  /\ FnIdle
  /\ nlNotifications = <<>>
  /\ nlIncidents = 0
  /\ nlAlerts = 0
  /\ nlClicks = 0

\* the incident handler reaches setNotifications for a new incident
NlIncidentNotification ==
  /\ nlIncidents < MaxListIncidents
  /\ nlIncidents' = nlIncidents + 1
  /\ nlNotifications' =
       pushNotification(nlNotifications,
         NotificationItem("incident", RowId(IncidentsTable, nlIncidents + 1)))
  /\ UNCHANGED <<nlAlerts, nlClicks, reduceVars, monVars, efirVars, subVars,
                 listVars, fnVars, notifVars, hazardVars, incVars, sosVars,
                 recVars, idxVars>>

\* the alert handler reaches setNotifications for a new SOS alert
NlSosNotification ==
  /\ nlAlerts < MaxListAlerts
  /\ nlAlerts' = nlAlerts + 1
  /\ nlNotifications' =
       pushNotification(nlNotifications,
         NotificationItem("sos", RowId(AlertsTable, nlAlerts + 1)))
  /\ UNCHANGED <<nlIncidents, nlClicks, reduceVars, monVars, efirVars, subVars,
                 listVars, fnVars, notifVars, hazardVars, incVars, sosVars,
                 recVars, idxVars>>

\* a click on the X button of one notification card
NlRemoveNotification ==
  /\ nlClicks < MaxListClicks
  /\ \E i \in 1..Len(nlNotifications) :
       nlNotifications' = removeNotification(nlNotifications, nlNotifications[i].id)
  /\ nlClicks' = nlClicks + 1
  /\ UNCHANGED <<nlIncidents, nlAlerts, reduceVars, monVars, efirVars, subVars,
                 listVars, fnVars, notifVars, hazardVars, incVars, sosVars,
                 recVars, idxVars>>

\* a click on Clear All, rendered while the list is not empty
NlClearAllNotifications ==
  /\ nlClicks < MaxListClicks
  /\ Len(nlNotifications) > 0
  /\ nlNotifications' = <<>>
  /\ nlClicks' = nlClicks + 1
  /\ UNCHANGED <<nlIncidents, nlAlerts, reduceVars, monVars, efirVars, subVars,
                 listVars, fnVars, notifVars, hazardVars, incVars, sosVars,
                 recVars, idxVars>>

NextNotifList ==
  \/ NlIncidentNotification
  \/ NlSosNotification
  \/ NlRemoveNotification
  \/ NlClearAllNotifications

SpecNotifList == InitNotifList /\ [][NextNotifList]_vars

(***************************************************************************)
(* NotificationSystem (SpecNotif).                                         *)
(* The rows of a table carry the ids 1..nfRows[table]; those up to         *)
(* nfOld[table] were there when the component mounted (one in each table), *)
(* the others are inserted while it is mounted and raise an INSERT event   *)
(* each.                                                                   *)
(***************************************************************************)
\* most rows of one table
MaxNotifRows == 2
\* most deliveries of one INSERT event
MaxDeliveries == 2
\* most runs of the subscription effects after the first
MaxNotifRuns == 1

NotifTables == {IncidentsTable, AlertsTable}

NotifIds == 1..MaxNotifRows

\* `data` of a failed query
NoData == -1

\* the type of the notifications a table's handler makes
TypeOf(table) == IF table = IncidentsTable THEN "incident" ELSE "sos"

\* what the detail lookup can resolve to: the row with its tourist, the row
\* without a tourist, or an error
LookupOutcomes == {"tourist", "no_tourist", "error"}

\* the ids a query for `id` returns: those of all rows, none for a failed query
IdsOf(data) == IF data = NoData THEN {} ELSE 1..data

InitNotif ==
  /\ IdxIdle
  /\ RecIdle
  /\ SosIdle
  /\ IncIdle
  /\ HazardIdle
  /\ ReduceIdle
  /\ MonIdle
  /\ EfirIdle
  /\ SubIdle
  /\ ListIdle
  /\ FnIdle
  /\ NlIdle
  /\ nfOld = [t \in NotifTables |-> 1]
  /\ nfRows = nfOld
  /\ nfInit = [stage |-> "incidents_sent", incidents |-> NoData, alerts |-> NoData]
  /\ nfPrev = [t \in NotifTables |-> {}]
  /\ nfRecorded = [t \in NotifTables |-> {}]
  /\ nfRun = 0
  /\ nfDelivered = [t \in NotifTables |-> [k \in NotifIds |-> 0]]
  /\ nfAccepted = {}
  /\ nfLookups = {}
  /\ nfNotifications = <<>>
  /\ nfMade = [t \in NotifTables |-> [k \in NotifIds |-> 0]]
  /\ nfCalled = [t \in NotifTables |-> [k \in NotifIds |-> 0]]

\* a row is inserted into one of the two tables
NfInsert ==
  /\ \E t \in NotifTables :
       /\ nfRows[t] < MaxNotifRows
       /\ nfRows' = [nfRows EXCEPT ![t] = @ + 1]
  /\ UNCHANGED <<nfOld, nfInit, nfPrev, nfRecorded, nfRun, nfDelivered,
                 nfAccepted, nfLookups, nfNotifications, nfMade, nfCalled,
                 reduceVars, monVars, efirVars, subVars, listVars,
                 fnVars, nlVars, hazardVars, incVars, sosVars, recVars,
                 idxVars>>

\* the database answers the first query of initializePreviousData
NfServeIncidents ==
  /\ nfInit.stage = "incidents_sent"
  /\ \E data \in {nfRows[IncidentsTable], NoData} :
       nfInit' = [nfInit EXCEPT !.stage = "incidents_served", !.incidents = data]
  /\ UNCHANGED <<nfOld, nfRows, nfPrev, nfRecorded, nfRun, nfDelivered,
                 nfAccepted, nfLookups, nfNotifications, nfMade, nfCalled,
                 reduceVars, monVars, efirVars, subVars, listVars,
                 fnVars, nlVars, hazardVars, incVars, sosVars, recVars,
                 idxVars>>

\* the first await returns and initializePreviousData sends its second query
NfAwaitIncidents ==
  /\ nfInit.stage = "incidents_served"
  /\ nfInit' = [nfInit EXCEPT !.stage = "alerts_sent"]
  /\ UNCHANGED <<nfOld, nfRows, nfPrev, nfRecorded, nfRun, nfDelivered,
                 nfAccepted, nfLookups, nfNotifications, nfMade, nfCalled,
                 reduceVars, monVars, efirVars, subVars, listVars,
                 fnVars, nlVars, hazardVars, incVars, sosVars, recVars,
                 idxVars>>

\* the database answers the second query
NfServeAlerts ==
  /\ nfInit.stage = "alerts_sent"
  /\ \E data \in {nfRows[AlertsTable], NoData} :
       nfInit' = [nfInit EXCEPT !.stage = "alerts_served", !.alerts = data]
  /\ UNCHANGED <<nfOld, nfRows, nfPrev, nfRecorded, nfRun, nfDelivered,
                 nfAccepted, nfLookups, nfNotifications, nfMade, nfCalled,
                 reduceVars, monVars, efirVars, subVars, listVars,
                 fnVars, nlVars, hazardVars, incVars, sosVars, recVars,
                 idxVars>>

\* the second await returns: the ids of both results are added to the refs
initializePreviousData ==
  /\ nfInit.stage = "alerts_served"
  /\ nfInit' = [nfInit EXCEPT !.stage = "done"]
  /\ nfPrev' = [t \in NotifTables |->
                  nfPrev[t] \cup IdsOf(IF t = IncidentsTable THEN nfInit.incidents
                                       ELSE nfInit.alerts)]
  /\ nfRecorded' = [t \in NotifTables |->
                      IdsOf(IF t = IncidentsTable THEN nfInit.incidents
                            ELSE nfInit.alerts)]
  /\ UNCHANGED <<nfOld, nfRows, nfRun, nfDelivered, nfAccepted, nfLookups,
                 nfNotifications, nfMade, nfCalled, reduceVars,
                 monVars, efirVars, subVars, listVars, fnVars, nlVars,
                 hazardVars, incVars, sosVars, recVars, idxVars>>

\* the page renders again: the inline onIncidentAlert and onSosAlert are new
\* functions, so both subscription effects clean up and run again; the refs
\* and the state of the component stay
NfRerunEffects ==
  /\ nfRun < MaxNotifRuns
  /\ nfRun' = nfRun + 1
  /\ UNCHANGED <<nfOld, nfRows, nfInit, nfPrev, nfRecorded, nfDelivered,
                 nfAccepted, nfLookups, nfNotifications, nfMade, nfCalled,
                 reduceVars, monVars, efirVars, subVars, listVars,
                 fnVars, nlVars, hazardVars, incVars, sosVars, recVars,
                 idxVars>>

\* NfDeliverInsert with a handler that does not look into the ref
NfDeliverInsertUnchecked ==
  /\ \E t \in NotifTables : \E k \in (nfOld[t] + 1)..nfRows[t] :
       /\ nfDelivered[t][k] < MaxDeliveries
       /\ nfDelivered' = [nfDelivered EXCEPT ![t][k] = @ + 1]
       /\ nfPrev' = [nfPrev EXCEPT ![t] = @ \cup {k}]
       /\ nfAccepted' = nfAccepted \cup {RowId(t, k)}
       /\ nfLookups' = nfLookups \cup {[table |-> t, id |-> k]}
  /\ UNCHANGED <<nfOld, nfRows, nfInit, nfRecorded, nfRun, nfNotifications,
                 nfMade, nfCalled, reduceVars, monVars, efirVars,
                 subVars, listVars, fnVars, nlVars, hazardVars, incVars,
                 sosVars, recVars, idxVars>>

\* the channel of the current effect run delivers the INSERT event of a row
\* inserted since the mount: the handler checks the ref and, for an id it
\* does not hold, adds it and starts the detail lookup
NfDeliverInsert ==
  /\ \E t \in NotifTables : \E k \in (nfOld[t] + 1)..nfRows[t] :
       /\ nfDelivered[t][k] < MaxDeliveries
       /\ nfDelivered' = [nfDelivered EXCEPT ![t][k] = @ + 1]
       /\ IF k \notin nfPrev[t]
          THEN /\ nfPrev' = [nfPrev EXCEPT ![t] = @ \cup {k}]
               /\ nfAccepted' = nfAccepted \cup {RowId(t, k)}
               /\ nfLookups' = nfLookups \cup {[table |-> t, id |-> k]}
          ELSE UNCHANGED <<nfPrev, nfAccepted, nfLookups, hazardVars, incVars,
                           sosVars, recVars, idxVars>>
  /\ UNCHANGED <<nfOld, nfRows, nfInit, nfRecorded, nfRun, nfNotifications,
                 nfMade, nfCalled, reduceVars, monVars, efirVars,
                 subVars, listVars, fnVars, nlVars, hazardVars, incVars,
                 sosVars, recVars, idxVars>>

\* the detail lookup of a handler returns: on an error the handler throws
\* into its catch, which logs; otherwise it makes the notification and calls
\* the callback of its effect run
NfResolveLookup ==
  /\ \E l \in nfLookups : \E outcome \in LookupOutcomes :
       /\ nfLookups' = nfLookups \ {l}
       /\ IF outcome = "error"
          THEN UNCHANGED <<nfNotifications, nfMade, nfCalled, hazardVars,
                           incVars, sosVars, recVars, idxVars>>
          ELSE /\ nfNotifications' =
                    pushNotification(nfNotifications,
                      NotificationItem(TypeOf(l.table), RowId(l.table, l.id)))
               /\ nfMade' = [nfMade EXCEPT ![l.table][l.id] = @ + 1]
               /\ nfCalled' = [nfCalled EXCEPT ![l.table][l.id] = @ + 1]
  /\ UNCHANGED <<nfOld, nfRows, nfInit, nfPrev, nfRecorded, nfRun, nfDelivered,
                 nfAccepted, reduceVars, monVars, efirVars, subVars,
                 listVars, fnVars, nlVars, hazardVars, incVars, sosVars,
                 recVars, idxVars>>

NextNotif ==
  \/ NfInsert
  \/ NfServeIncidents
  \/ NfAwaitIncidents
  \/ NfServeAlerts
  \/ initializePreviousData
  \/ NfRerunEffects
  \/ NfDeliverInsert
  \/ NfResolveLookup

SpecNotif == InitNotif /\ [][NextNotif]_vars

\* the request of a lookup in flight settles, with a result or an error
SpecNotifFair == SpecNotif /\ WF_vars(NfResolveLookup)

(***************************************************************************)
(* Hazard Management (SpecHazard).                                         *)
(* Every call of isHazardActive reads the clock with new Date(); a render  *)
(* calls it for the count in the tab button and then for the cards.        *)
(***************************************************************************)
\* most hazards fetched
MaxHazards == 2

\* expires_at of a hazard without expiry (null)
NoExpiresAt == [null |-> TRUE]

\* expires_at of the hazards: none, 10:00:00.000 and 10:00:00.001
HazardExpiries ==
  {NoExpiresAt, [h |-> 10, ms |-> 0], [h |-> 10, ms |-> 1]}

\* the clock while the view is in use: 09:59:59.999 to 10:00:00.001
HazardClocks == {getTime([h |-> 9, ms |-> 3599999]), getTime([h |-> 10, ms |-> 0]),
                 getTime([h |-> 10, ms |-> 1])}

HazardRows == [is_active : BOOLEAN, expires_at : HazardExpiries]

\* the results of the hazards query
HazardLists == UNION { [1..n -> HazardRows] : n \in 0..MaxHazards }

\* isHazardActive with >= in place of >
isHazardActiveOrEqual(hazard, nowMs) ==
  IF ~hazard.is_active THEN FALSE
  ELSE IF hazard.expires_at = NoExpiresAt THEN TRUE
  ELSE getTime(hazard.expires_at) >= nowMs

\* isHazardActive, with new Date() at nowMs
isHazardActive(hazard, nowMs) ==
  IF ~hazard.is_active THEN FALSE
  ELSE IF hazard.expires_at = NoExpiresAt THEN TRUE
  ELSE getTime(hazard.expires_at) > nowMs

\* hazards.filter(h => isHazardActive(h)).length
activeHazardsCount(hazards, nowMs) ==
  Len(SelectSeq(hazards, LAMBDA h : isHazardActive(h, nowMs)))

InitHazard ==
  /\ IdxIdle
  /\ RecIdle
  /\ SosIdle
  /\ IncIdle
  /\ ReduceIdle
  /\ MonIdle
  /\ EfirIdle
  /\ SubIdle
  /\ ListIdle
  /\ FnIdle
  /\ NlIdle
  /\ NotifIdle
  /\ hzHazards = <<>>
  /\ hzLoading = TRUE
  /\ hzActiveTab = "hazards"
  /\ hzClock \in HazardClocks
  /\ hzCount = 0
  /\ hzCountAt = 0
  /\ hzBadges = <<>>
  /\ hzBadgesAt = 0

\* fetchData returns: setHazards(data) or, on an error, the toast; setLoading(false)
HzFetchData ==
  /\ hzLoading
  /\ \/ \E data \in HazardLists : hzHazards' = data
     \/ hzHazards' = hzHazards
  /\ hzLoading' = FALSE
  /\ UNCHANGED <<hzActiveTab, hzClock, hzCount, hzCountAt, hzBadges, hzBadgesAt,
                 reduceVars, monVars, efirVars, subVars, listVars, fnVars,
                 nlVars, notifVars, incVars, sosVars, recVars, idxVars>>

\* time passes
HzTick ==
  /\ \E t \in HazardClocks : t > hzClock /\ hzClock' = t
  /\ UNCHANGED <<hzHazards, hzLoading, hzActiveTab, hzCount, hzCountAt,
                 hzBadges, hzBadgesAt, reduceVars, monVars, efirVars, subVars,
                 listVars, fnVars, nlVars, notifVars, incVars, sosVars,
                 recVars, idxVars>>

\* a click on one of the two tab buttons
HzSetActiveTab ==
  /\ ~hzLoading
  /\ \E tab \in {"hazards", "zones"} : tab # hzActiveTab /\ hzActiveTab' = tab
  /\ UNCHANGED <<hzHazards, hzLoading, hzClock, hzCount, hzCountAt, hzBadges,
                 hzBadgesAt, reduceVars, monVars, efirVars, subVars, listVars,
                 fnVars, nlVars, notifVars, incVars, sosVars, recVars, idxVars>>

\* the component renders: the count of the tab button, then the badges of
\* the cards when the hazards tab is open; the clock may advance in between
HzRender ==
  /\ ~hzLoading
  /\ \E t \in HazardClocks :
       /\ t >= hzClock
       /\ hzClock' = t
       /\ hzCount' = activeHazardsCount(hzHazards, hzClock)
       /\ hzCountAt' = hzClock
       /\ IF hzActiveTab = "hazards"
          THEN /\ hzBadges' = [i \in 1..Len(hzHazards) |->
                                 IF isHazardActive(hzHazards[i], t) THEN "Active"
                                 ELSE "Inactive"]
               /\ hzBadgesAt' = t
          ELSE /\ hzBadges' = <<>>
               /\ hzBadgesAt' = 0
  /\ UNCHANGED <<hzHazards, hzLoading, hzActiveTab, reduceVars, monVars, efirVars,
                 subVars, listVars, fnVars, nlVars, notifVars, incVars,
                 sosVars, recVars, idxVars>>

NextHazard ==
  \/ HzFetchData
  \/ HzTick
  \/ HzSetActiveTab
  \/ HzRender

SpecHazard == InitHazard /\ [][NextHazard]_vars

(***************************************************************************)
(* Incident status (SpecInc).                                              *)
(* The SOS & Incidents page holds the incidents it fetched and hands them  *)
(* to the incidents list, whose buttons call handleStatusUpdate; the debug *)
(* tab of the page holds the test panel.                                   *)
(***************************************************************************)
\* most clicks on the buttons of the incidents list and of the test panel
MaxIncClicks == 3

\* the row the table holds at the mount, and the row the test panel inserts
IncIds == {"i1", "test"}

\* the values of status the specification enumerates
IncidentEnum == {"pending", "active", "in_review", "resolved"}

\* resolved_at of a row that was never resolved (null)
NoResolvedAt == 0

\* the new statuses the buttons of an incident card pass to handleStatusUpdate
incidentActions(status) ==
  IF status # "resolved"
  THEN (IF status = "pending" THEN {"in_review"} ELSE {})
         \cup (IF status = "in_review" THEN {"resolved"} ELSE {})
  ELSE {}

\* the statuses a sequence of clicks leads to from those of S, every update
\* being accepted
RECURSIVE IncidentReach(_)
IncidentReach(S) ==
  LET T == S \cup UNION { incidentActions(s) : s \in S }
  IN IF T = S THEN S ELSE IncidentReach(T)

InitInc ==
  /\ IdxIdle
  /\ RecIdle
  /\ SosIdle
  /\ ReduceIdle
  /\ MonIdle
  /\ EfirIdle
  /\ SubIdle
  /\ ListIdle
  /\ FnIdle
  /\ NlIdle
  /\ NotifIdle
  /\ HazardIdle
  /\ \E s \in IncidentEnum :
       incRows = [id \in {"i1"} |-> [status |-> s, resolved_at |-> NoResolvedAt]]
  /\ incIncidents = <<>>
  /\ incCalls = {}
  /\ incFetches = {[stage |-> "sent", data |-> <<>>]}
  /\ incClicks = 0
  /\ incToast = "none"

\* DatabaseTest.createTestIncident inserts its incident; the page's channel
\* on the table calls fetchIncidents
IncCreateTestIncident ==
  /\ incClicks < MaxIncClicks
  /\ "test" \notin DOMAIN incRows
  /\ incClicks' = incClicks + 1
  /\ incRows' = [id \in DOMAIN incRows \cup {"test"} |->
                   IF id = "test" THEN [status |-> "active", resolved_at |-> NoResolvedAt]
                   ELSE incRows[id]]
  /\ incFetches' = incFetches \cup {[stage |-> "sent", data |-> <<>>]}
  /\ UNCHANGED <<incIncidents, incCalls, incToast, reduceVars, monVars, efirVars,
                 subVars, listVars, fnVars, nlVars, notifVars, hazardVars,
                 sosVars, recVars, idxVars>>

\* a click on `Start Review` or `Mark Resolved` of a card: handleStatusUpdate
\* builds updateData and sends it
IncClickStatusButton ==
  \E id \in DOMAIN incIncidents : \E newStatus \in IncidentEnum :
    /\ incClicks < MaxIncClicks
    /\ newStatus \in incidentActions(incIncidents[id].status)
    /\ incClicks' = incClicks + 1
    /\ incCalls' = incCalls \cup
         { [id |-> id, newStatus |-> newStatus,
            resolved_at |-> IF newStatus = "resolved" THEN incClicks + 1
                            ELSE NoResolvedAt,
            stage |-> "sent", ok |-> TRUE] }
    /\ UNCHANGED <<incRows, incIncidents, incFetches, incToast, reduceVars,
                   monVars, efirVars, subVars, listVars, fnVars, nlVars,
                   notifVars, hazardVars, sosVars, recVars, idxVars>>

\* the table receives .update(updateData).eq('id', incidentId) and applies
\* it, or the request fails
IncBackendUpdate ==
  \E c \in incCalls : \E ok \in BOOLEAN :
    /\ c.stage = "sent"
    /\ incCalls' = (incCalls \ {c}) \cup {[c EXCEPT !.stage = "done", !.ok = ok]}
    /\ incRows' = IF ok
                  THEN [incRows EXCEPT ![c.id] =
                          [status |-> c.newStatus,
                           resolved_at |-> IF c.resolved_at # NoResolvedAt
                                           THEN c.resolved_at
                                           ELSE incRows[c.id].resolved_at]]
                  ELSE incRows
    /\ UNCHANGED <<incIncidents, incFetches, incClicks, incToast, reduceVars,
                   monVars, efirVars, subVars, listVars, fnVars, nlVars,
                   notifVars, hazardVars, sosVars, recVars, idxVars>>

\* handleStatusUpdate after the await: the toast and onUpdate(), which is
\* fetchIncidents, or the error toast
IncUpdateReturn ==
  \E c \in incCalls :
    /\ c.stage = "done"
    /\ incCalls' = incCalls \ {c}
    /\ incToast' = IF c.ok THEN "Status Updated" ELSE "Error"
    /\ incFetches' = IF c.ok THEN incFetches \cup {[stage |-> "sent", data |-> <<>>]}
                     ELSE incFetches
    /\ UNCHANGED <<incRows, incIncidents, incClicks, reduceVars, monVars,
                   efirVars, subVars, listVars, fnVars, nlVars, notifVars,
                   hazardVars, sosVars, recVars, idxVars>>

\* the table answers the select of fetchIncidents
IncServeFetch ==
  \E f \in incFetches :
    /\ f.stage = "sent"
    /\ incFetches' = (incFetches \ {f}) \cup {[stage |-> "served", data |-> incRows]}
    /\ UNCHANGED <<incRows, incIncidents, incCalls, incClicks, incToast,
                   reduceVars, monVars, efirVars, subVars, listVars, fnVars,
                   nlVars, notifVars, hazardVars, sosVars, recVars, idxVars>>

\* fetchIncidents after the await: setIncidents(data)
IncFetchReturn ==
  \E f \in incFetches :
    /\ f.stage = "served"
    /\ incFetches' = incFetches \ {f}
    /\ incIncidents' = f.data
    /\ UNCHANGED <<incRows, incCalls, incClicks, incToast, reduceVars, monVars,
                   efirVars, subVars, listVars, fnVars, nlVars, notifVars,
                   hazardVars, sosVars, recVars, idxVars>>

NextInc ==
  \/ IncCreateTestIncident
  \/ IncClickStatusButton
  \/ IncBackendUpdate
  \/ IncUpdateReturn
  \/ IncServeFetch
  \/ IncFetchReturn

SpecInc == InitInc /\ [][NextInc]_vars

(***************************************************************************)
(* SOS alerts (SpecSos).                                                   *)
(* The SOS & Incidents page holds the alerts it fetched; its SOS tab       *)
(* renders a card for each alert of activeSosAlerts, and the card's        *)
(* `Mark as Resolved` button calls handleMarkAsResolved.                   *)
(***************************************************************************)
\* most inserts of alerts and clicks on `Mark as Resolved`
MaxSosClicks == 3

SosIds == {"a1", "a2"}

\* the severities the views name
Severities == {"high", "medium", "low"}

SosRow(severity, is_read) == [severity |-> severity, is_read |-> is_read]

\* activeSosAlerts: the ids of sosAlerts.filter(alert =>
\* alert.severity === 'high' && !alert.is_read)
activeSosAlerts(alerts) ==
  { id \in DOMAIN alerts : alerts[id].severity = "high" /\ ~alerts[id].is_read }

InitSos ==
  /\ IdxIdle
  /\ RecIdle
  /\ ReduceIdle
  /\ MonIdle
  /\ EfirIdle
  /\ SubIdle
  /\ ListIdle
  /\ FnIdle
  /\ NlIdle
  /\ NotifIdle
  /\ HazardIdle
  /\ IncIdle
  /\ \E severity \in Severities :
       sosRows = [id \in {"a1"} |-> SosRow(severity, FALSE)]
  /\ sosAlerts = <<>>
  /\ sosCalls = {}
  /\ sosFetches = {[stage |-> "sent", ok |-> TRUE, data |-> <<>>]}
  /\ sosClicks = 0
  /\ sosToast = "none"

\* a tourist's SOS inserts an alert; the page's channel on the table calls
\* fetchSosAlerts
SosInsertAlert ==
  /\ sosClicks < MaxSosClicks
  /\ "a2" \notin DOMAIN sosRows
  /\ sosClicks' = sosClicks + 1
  /\ \E severity \in Severities :
       sosRows' = [id \in DOMAIN sosRows \cup {"a2"} |->
                     IF id = "a2" THEN SosRow(severity, FALSE) ELSE sosRows[id]]
  /\ sosFetches' = sosFetches \cup {[stage |-> "sent", ok |-> TRUE, data |-> <<>>]}
  /\ UNCHANGED <<sosAlerts, sosCalls, sosToast, reduceVars, monVars, efirVars,
                 subVars, listVars, fnVars, nlVars, notifVars, hazardVars,
                 incVars, recVars, idxVars>>

\* a click on `Mark as Resolved` of a card of the active list
handleMarkAsResolved ==
  \E id \in activeSosAlerts(sosAlerts) :
    /\ sosClicks < MaxSosClicks
    /\ sosClicks' = sosClicks + 1
    /\ sosCalls' = sosCalls \cup {[id |-> id, stage |-> "sent", ok |-> TRUE]}
    /\ UNCHANGED <<sosRows, sosAlerts, sosFetches, sosToast, reduceVars, monVars,
                   efirVars, subVars, listVars, fnVars, nlVars, notifVars,
                   hazardVars, incVars, recVars, idxVars>>

\* the table receives .update({ is_read: true }).eq('id', alert.id) and
\* applies it, or the request fails
SosBackendUpdate ==
  \E c \in sosCalls : \E ok \in BOOLEAN :
    /\ c.stage = "sent"
    /\ sosCalls' = (sosCalls \ {c}) \cup {[c EXCEPT !.stage = "done", !.ok = ok]}
    /\ sosRows' = IF ok THEN [sosRows EXCEPT ![c.id].is_read = TRUE] ELSE sosRows
    /\ UNCHANGED <<sosAlerts, sosFetches, sosClicks, sosToast, reduceVars,
                   monVars, efirVars, subVars, listVars, fnVars, nlVars,
                   notifVars, hazardVars, incVars, recVars, idxVars>>

\* handleMarkAsResolved after the await: the toast and onUpdate(), which is
\* fetchSosAlerts, or the error toast
SosUpdateReturn ==
  \E c \in sosCalls :
    /\ c.stage = "done"
    /\ sosCalls' = sosCalls \ {c}
    /\ sosToast' = IF c.ok THEN "SOS Resolved" ELSE "Error"
    /\ sosFetches' = IF c.ok
                     THEN sosFetches \cup {[stage |-> "sent", ok |-> TRUE, data |-> <<>>]}
                     ELSE sosFetches
    /\ UNCHANGED <<sosRows, sosAlerts, sosClicks, reduceVars, monVars, efirVars,
                   subVars, listVars, fnVars, nlVars, notifVars, hazardVars,
                   incVars, recVars, idxVars>>

\* the table answers the select of fetchSosAlerts, or the request fails
SosServeFetch ==
  \E f \in sosFetches : \E ok \in BOOLEAN :
    /\ f.stage = "sent"
    /\ sosFetches' = (sosFetches \ {f}) \cup
         {[stage |-> "served", ok |-> ok, data |-> IF ok THEN sosRows ELSE <<>>]}
    /\ UNCHANGED <<sosRows, sosAlerts, sosCalls, sosClicks, sosToast, reduceVars,
                   monVars, efirVars, subVars, listVars, fnVars, nlVars,
                   notifVars, hazardVars, incVars, recVars, idxVars>>

\* fetchSosAlerts after the await: setSosAlerts(data), or the error toast
fetchSosAlerts ==
  \E f \in sosFetches :
    /\ f.stage = "served"
    /\ sosFetches' = sosFetches \ {f}
    /\ sosAlerts' = IF f.ok THEN f.data ELSE sosAlerts
    /\ sosToast' = IF f.ok THEN sosToast ELSE "Error"
    /\ UNCHANGED <<sosRows, sosCalls, sosClicks, reduceVars, monVars, efirVars,
                   subVars, listVars, fnVars, nlVars, notifVars, hazardVars,
                   incVars, recVars, idxVars>>

NextSos ==
  \/ SosInsertAlert
  \/ handleMarkAsResolved
  \/ SosBackendUpdate
  \/ SosUpdateReturn
  \/ SosServeFetch
  \/ fetchSosAlerts

SpecSos == InitSos /\ [][NextSos]_vars

(***************************************************************************)
(* Tourist Records, detail panel (SpecRec).                                *)
(* The panel is an overlay over the list, rendered while selectedTourist   *)
(* is not null; `View Details` of another tourist is clicked after Close.  *)
(***************************************************************************)
\* most clicks on `View Details`
MaxRecClicks == 3

\* the last row of a tourist in the location_logs table, kept as its
\* tourist_id
LastLocationOf(touristId) == [tourist_id |-> touristId]

\* the results of the query of fetchTouristLocation: the row, or an error
\* (which .single() also gives for a tourist without rows)
LocationResults(touristId) == {LastLocationOf(touristId), NoLocation}

InitRec ==
  /\ IdxIdle
  /\ ReduceIdle
  /\ MonIdle
  /\ EfirIdle
  /\ SubIdle
  /\ ListIdle
  /\ FnIdle
  /\ NlIdle
  /\ NotifIdle
  /\ HazardIdle
  /\ IncIdle
  /\ SosIdle
  /\ recSelected = "none"
  /\ recLocation = NoLocation
  /\ recFetches = {}
  /\ recClicks = 0

\* a click on `View Details` of a tourist of the list: setSelectedTourist
\* and the start of fetchTouristLocation
handleViewTourist ==
  /\ recSelected = "none"
  /\ recClicks < MaxRecClicks
  /\ recClicks' = recClicks + 1
  /\ \E tourist \in Tourists :
       /\ recSelected' = tourist
       /\ recFetches' = recFetches \cup
            {[seq |-> recClicks + 1, tourist_id |-> tourist, stage |-> "sent",
              data |-> NoLocation]}
  /\ UNCHANGED <<recLocation, reduceVars, monVars, efirVars, subVars, listVars,
                 fnVars, nlVars, notifVars, hazardVars, incVars, sosVars,
                 idxVars>>

\* a click on Close: setSelectedTourist(null)
RecClose ==
  /\ recSelected # "none"
  /\ recSelected' = "none"
  /\ UNCHANGED <<recLocation, recFetches, recClicks, reduceVars, monVars,
                 efirVars, subVars, listVars, fnVars, nlVars, notifVars,
                 hazardVars, incVars, sosVars, idxVars>>

\* the table answers the query of a fetchTouristLocation
RecServeFetch ==
  \E f \in recFetches : \E data \in LocationResults(f.tourist_id) :
    /\ f.stage = "sent"
    /\ recFetches' = (recFetches \ {f}) \cup
         {[f EXCEPT !.stage = "served", !.data = data]}
    /\ UNCHANGED <<recSelected, recLocation, recClicks, reduceVars, monVars,
                   efirVars, subVars, listVars, fnVars, nlVars, notifVars,
                   hazardVars, incVars, sosVars, idxVars>>

\* fetchTouristLocation after the await: setTouristLocation(data), or
\* setTouristLocation(null) on an error
fetchTouristLocation ==
  \E f \in recFetches :
    /\ f.stage = "served"
    /\ recFetches' = recFetches \ {f}
    /\ recLocation' = f.data
    /\ UNCHANGED <<recSelected, recClicks, reduceVars, monVars, efirVars,
                   subVars, listVars, fnVars, nlVars, notifVars, hazardVars,
                   incVars, sosVars, idxVars>>

NextRec ==
  \/ handleViewTourist
  \/ RecClose
  \/ RecServeFetch
  \/ fetchTouristLocation

SpecRec == InitRec /\ [][NextRec]_vars


(***************************************************************************)
(* SpecIdx: the Index page.  The effect of Index subscribes to the auth   *)
(* events and calls getSession; both handlers store the session they are  *)
(* handed.  The auth client is the environment: it holds a session or     *)
(* none, answers getSession with the session it holds at that time, emits *)
(* SIGNED_IN when a sign-in succeeds and SIGNED_OUT when signOut does, and *)
(* hands the events to the callback in the order it emitted them.         *)
(***************************************************************************)
\* most sign-ins at the auth client
MaxSignIns == 2
\* most clicks on Logout
MaxLogoutClicks == 2

AuthSessions == {"s1", "s2"}

\* the ids of the navigation entries of the dashboard layout
IndexViews ==
  {"dashboard", "monitoring", "tourists", "incidents", "efirs", "hazards"}

\* session?.user ?? null
UserOf(session) == IF session = "none" THEN "none" ELSE "admin"

\* what Index returns: the spinner while loading, the login page without a
\* user, the dashboard layout otherwise
IndexRender(loading, user) ==
  IF loading THEN "spinner"
  ELSE IF user = "none" THEN "login"
  ELSE "dashboard"

\* the state after the first render and its effect: the callback is
\* subscribed, getSession is called, the client holds a stored session or none
InitIdx ==
  /\ ReduceIdle
  /\ MonIdle
  /\ EfirIdle
  /\ SubIdle
  /\ ListIdle
  /\ FnIdle
  /\ NlIdle
  /\ NotifIdle
  /\ HazardIdle
  /\ IncIdle
  /\ SosIdle
  /\ RecIdle
  /\ idxUser = "none"
  /\ idxSession = "none"
  /\ idxLoading = TRUE
  /\ idxCurrentView = "dashboard"
  /\ idxAuth \in {"none", "s1"}
  /\ idxGet = [stage |-> "called", session |-> "none"]
  /\ idxEvents = <<>>
  /\ idxLogout = "idle"
  /\ idxSignIns = 0
  /\ idxClicks = 0
  /\ idxToast = "none"
  /\ idxLoggedOut = FALSE

IdxOthers ==
  <<reduceVars, monVars, efirVars, subVars, listVars, fnVars, nlVars,
    notifVars, hazardVars, incVars, sosVars, recVars>>

\* a sign-in succeeds at the auth client (the login page, or the recovery of
\* the stored session): the client holds the session and emits SIGNED_IN
AuthSignIn ==
  \E s \in AuthSessions :
    /\ idxSignIns < MaxSignIns
    /\ idxSignIns' = idxSignIns + 1
    /\ idxAuth' = s
    /\ idxEvents' = Append(idxEvents, [event |-> "SIGNED_IN", session |-> s])
    /\ UNCHANGED <<idxUser, idxSession, idxLoading, idxCurrentView, idxGet,
                   idxLogout, idxClicks, idxToast, idxLoggedOut, IdxOthers>>

\* the auth client answers the getSession call with the session it holds
AuthAnswerGetSession ==
  /\ idxGet.stage = "called"
  /\ idxGet' = [stage |-> "answered", session |-> idxAuth]
  /\ UNCHANGED <<idxUser, idxSession, idxLoading, idxCurrentView, idxAuth,
                 idxEvents, idxLogout, idxSignIns, idxClicks, idxToast,
                 idxLoggedOut, IdxOthers>>

\* the then-callback of getSession: setSession, setUser, setLoading(false)
getSessionThen ==
  /\ idxGet.stage = "answered"
  /\ idxGet' = [idxGet EXCEPT !.stage = "done"]
  /\ idxSession' = idxGet.session
  /\ idxUser' = UserOf(idxGet.session)
  /\ idxLoading' = FALSE
  /\ UNCHANGED <<idxCurrentView, idxAuth, idxEvents, idxLogout, idxSignIns,
                 idxClicks, idxToast, idxLoggedOut, IdxOthers>>

\* the callback of onAuthStateChange, handed the oldest event not yet handled
onAuthStateChange ==
  /\ idxEvents # <<>>
  /\ LET e == Head(idxEvents) IN
       /\ idxSession' = e.session
       /\ idxUser' = UserOf(e.session)
       /\ idxLoading' = FALSE
       /\ idxToast' = IF e.event = "SIGNED_IN" THEN "Welcome!" ELSE idxToast
       /\ idxLoggedOut' =
            IF e.event = "SIGNED_IN" THEN FALSE ELSE idxLoggedOut
  /\ idxEvents' = Tail(idxEvents)
  /\ UNCHANGED <<idxCurrentView, idxAuth, idxGet, idxLogout, idxSignIns,
                 idxClicks, IdxOthers>>

\* a click on a navigation entry of the dashboard layout: setCurrentView
IdxViewChange ==
  \E v \in IndexViews :
    /\ IndexRender(idxLoading, idxUser) = "dashboard"
    /\ v # idxCurrentView
    /\ idxCurrentView' = v
    /\ UNCHANGED <<idxUser, idxSession, idxLoading, idxAuth, idxGet,
                   idxEvents, idxLogout, idxSignIns, idxClicks, idxToast,
                   idxLoggedOut, IdxOthers>>

\* a click on Logout: DashboardLayout's handleLogout calls signOut
IdxClickLogout ==
  /\ IndexRender(idxLoading, idxUser) = "dashboard"
  /\ idxLogout = "idle"
  /\ idxClicks < MaxLogoutClicks
  /\ idxClicks' = idxClicks + 1
  /\ idxLogout' = "called"
  /\ UNCHANGED <<idxUser, idxSession, idxLoading, idxCurrentView, idxAuth,
                 idxGet, idxEvents, idxSignIns, idxToast, idxLoggedOut,
                 IdxOthers>>

\* the auth client settles signOut: it drops its session and emits
\* SIGNED_OUT, or the call throws
AuthSignOut ==
  /\ idxLogout = "called"
  /\ \/ /\ idxLogout' = "resolved"
        /\ idxAuth' = "none"
        /\ idxEvents' =
             Append(idxEvents, [event |-> "SIGNED_OUT", session |-> "none"])
     \/ /\ idxLogout' = "thrown"
        /\ UNCHANGED <<idxAuth, idxEvents>>
  /\ UNCHANGED <<idxUser, idxSession, idxLoading, idxCurrentView, idxGet,
                 idxSignIns, idxClicks, idxToast, idxLoggedOut, IdxOthers>>

\* the rest of DashboardLayout's handleLogout: onLogout, which is the
\* handleLogout of Index, and the toast; the error toast when signOut threw
handleLogout ==
  /\ idxLogout \in {"resolved", "thrown"}
  /\ idxLogout' = "idle"
  /\ IF idxLogout = "resolved"
       THEN /\ idxUser' = "none"
            /\ idxSession' = "none"
            /\ idxCurrentView' = "dashboard"
            /\ idxToast' = "Logged out"
            /\ idxLoggedOut' = TRUE
       ELSE /\ idxToast' = "Error"
            /\ UNCHANGED <<idxUser, idxSession, idxCurrentView, idxLoggedOut>>
  /\ UNCHANGED <<idxLoading, idxAuth, idxGet, idxEvents, idxSignIns,
                 idxClicks, IdxOthers>>

NextIdx ==
  \/ AuthSignIn
  \/ AuthAnswerGetSession
  \/ getSessionThen
  \/ onAuthStateChange
  \/ IdxViewChange
  \/ IdxClickLogout
  \/ AuthSignOut
  \/ handleLogout

SpecIdx == InitIdx /\ [][NextIdx]_vars

(***************************************************************************)
(* Properties of the reduction and the classification (SpecReduce).        *)
(***************************************************************************)
ReductionSites == {"LiveLocationMap", "SimpleLeafletMap", "TouristMonitoring"}

TouristsIn(locs) == { locs[i].tourist_id : i \in 1..Len(locs) }

RowsOf(locs) == { locs[i] : i \in 1..Len(locs) }

RestrictedLabel(s) ==
  CASE s = "TouristMonitoring" -> "Restricted Zone"
    [] s \in {"LiveLocationMap", "SimpleLeafletMap"} -> "#ef4444"
    [] OTHER -> "restricted"

StaleLabel(s) ==
  CASE s = "TouristMonitoring" -> "Outdated"
    [] s \in {"LiveLocationMap", "SimpleLeafletMap"} -> "#6b7280"
    [] OTHER -> "outdated"

SafeLabel(s) ==
  CASE s = "TouristMonitoring" -> "Safe"
    [] s \in {"LiveLocationMap", "SimpleLeafletMap"} -> "#22c55e"
    [] OTHER -> "safe"

\* age of a record in milliseconds at the time of the call
AgeMs(location) == now - getTime(location.timestamp)

\* C1: every reduction returns exactly one record per distinct tourist_id of
\* the batch, a record of the batch, whose timestamp is greater than or equal
\* to that of every record of the same tourist in the batch.
C1_OnePerTouristLatest ==
  site \in ReductionSites =>
    /\ Len(shown) = Cardinality(TouristsIn(batch))
    /\ TouristsIn(shown) = TouristsIn(batch)
    /\ \A i \in 1..Len(shown) :
         /\ shown[i] \in RowsOf(batch)
         /\ \A j \in 1..Len(batch) :
              batch[j].tourist_id = shown[i].tourist_id
                => getTime(shown[i].timestamp) >= getTime(batch[j].timestamp)

\* a reduction ran on a batch in which a tourist's later row follows an
\* earlier one, so a record already selected had to be replaced
C1_Witness ==
  /\ site \in ReductionSites
  /\ Len(shown) < Len(batch)
  /\ \E i, j \in 1..Len(batch) :
       /\ i < j
       /\ batch[i].tourist_id = batch[j].tourist_id
       /\ getTime(batch[j].timestamp) > getTime(batch[i].timestamp)

\* C3: a record with in_restricted_zone = true is classified RESTRICTED at
\* every call site, whatever its age.
C3_RestrictedDominates ==
  site # "none" =>
    \A i \in 1..Len(shown) :
      shown[i].in_restricted_zone => classes[i] = RestrictedLabel(site)

\* a restricted record older than 6 hours was classified
C3_Witness ==
  /\ site = "TouristMap"
  /\ \E i \in 1..Len(shown) :
       /\ shown[i].in_restricted_zone
       /\ AgeMs(shown[i]) > StaleHours * MsPerHour
       /\ classes[i] = "restricted"

\* C4: a record with in_restricted_zone = false is classified STALE exactly
\* when its age is strictly greater than 6 hours, and SAFE otherwise (so SAFE
\* at an age of exactly 6 hours).
C4_StaleIffOlderThanSixHours ==
  site # "none" =>
    \A i \in 1..Len(shown) :
      ~shown[i].in_restricted_zone =>
        /\ (classes[i] = StaleLabel(site)) <=> (AgeMs(shown[i]) > 21600000)
        /\ (classes[i] = SafeLabel(site)) <=> (AgeMs(shown[i]) <= 21600000)

\* a record exactly 6 hours old was classified SAFE and one a millisecond
\* older was classified STALE
C4_Witness ==
  /\ site = "TouristRecords"
  /\ Len(shown) = 1
  /\ ~shown[1].in_restricted_zone
  /\ \/ AgeMs(shown[1]) = 21600000 /\ classes[1] = "safe"
     \/ AgeMs(shown[1]) = 21600001 /\ classes[1] = "outdated"

\* the classification a label of any call site stands for
ClassName(label) ==
  CASE label \in {"Restricted Zone", "#ef4444", "restricted"} -> "RESTRICTED"
    [] label \in {"Outdated", "#6b7280", "outdated"} -> "STALE"
    [] label \in {"Safe", "#22c55e", "safe"} -> "SAFE"
    [] OTHER -> "UNKNOWN"

\* the classifications the four classifiers give one record
ClassesOf(nowMs, location) ==
  { ClassName(getLocationStatus(nowMs, location)),
    ClassName(mapLocationStatus(nowMs, location)),
    ClassName(getMarkerColor(nowMs, location)),
    ClassName(recordLocationStatus(nowMs, location)) }

MonFetched ==
  IF monVersion = "TouristMonitoring" THEN monData ELSE monLocations

ShownIsLatestFetched ==
  \A i \in 1..Len(MonShown) :
    \A j \in 1..Len(MonFetched) :
      MonFetched[j].tourist_id = MonShown[i].tourist_id
        => getTime(MonShown[i].timestamp) >= getTime(MonFetched[j].timestamp)

\* C2: under every setting of the search, safety and time filters, a record
\* the Tourist Monitoring view shows as a tourist's current position is that
\* tourist's maximum-timestamp record among all fetched rows, so an older
\* restricted row never decides the status of a tourist whose latest row is
\* not restricted.
C2_ShownIsLatestFetched == ShownIsLatestFetched

\* the part of C2 that the code keeps: TouristMonitoring.tsx, which reduces
\* before it filters, shows only maximum-timestamp records
MonReduceOnFetchShowsLatest ==
  monVersion = "TouristMonitoring" => ShownIsLatestFetched

\* C10: the response that resolved last decides the cached locations,
\* whatever the order in which the fetches were started; no guard drops the
\* response of an earlier fetch that resolves after a later one.
C10_LastResolvedWins ==
  monLastSeq # 0 =>
    IF monVersion = "TouristMonitoring"
    THEN monLocations = latestLocations(monData)
    ELSE monLocations = monData \/ monLocations = SampleData

\* the response of the fetch started first resolved after that of a later
\* fetch and left the view, with nothing in flight, holding fewer rows than
\* the table has
C10_Witness ==
  /\ monVersion = "TouristMonitoring"
  /\ monLastSeq # 0
  /\ monLastSeq < monMaxSeq
  /\ monReqs = {}
  /\ monLocations = latestLocations(monData)
  /\ Len(monData) < Len(logs)
  /\ Cardinality(TouristsIn(monLocations)) < Cardinality(TouristsIn(logs))

\* the threshold of the query the view sends under its time filter
MonGte ==
  IF monVersion = "TouristMonitoring" THEN -1 ELSE timeThreshold(monTime)

\* what the view caches when a query answered from the table as it is now
\* resolves
MonFresh ==
  { locationsOf(monVersion, [data |-> d]) :
      d \in OrderedDesc(Selected(logs, MonGte)) }

\* C11: after a missed notification, once a later notification has been
\* delivered and every fetch in flight has resolved without error, the
\* cached locations are what a query of the table returns at that time.
C11_SelfHealing ==
  (monHeal = "notified" /\ monReqs = {}) => monLocations \in MonFresh

\* the response r resolves in this step
MonResolves(r) == r.stage = "served" /\ monReqs' = monReqs \ {r}

\* C12: a delivered change notification starts a fetch with the full query
\* of the view, and the resolution of a response without error replaces the
\* cached locations by what that response alone gives; the rows cached
\* before play no part.
C12_NotificationRefetchesWholesale ==
  [][ /\ (Len(logs') > Len(logs) /\ monHeal' # "missed")
         => \E r \in monReqs' \ monReqs :
              /\ r.stage = "sent"
              /\ r.gte = MonGte
      /\ \A r \in monReqs :
           (MonResolves(r) /\ r.ok) => monLocations' = locationsOf(monVersion, r)
    ]_vars

\* C12 witness: the fetch a notification started has resolved without
\* error, after the fetch of the mount, and the cache is the two rows of
\* its response
C12_Witness ==
  /\ monLastSeq = 2
  /\ monReqs = {}
  /\ monToast = "none"
  /\ Len(logs) = 2
  /\ monMaxSeq = 2
  /\ monLocations = locationsOf(monVersion, [data |-> monData])
  /\ Len(monData) = 2

\* the rows of the table
MonTableRows == { logs[i] : i \in 1..Len(logs) }

\* C13: a failed fetch produces a message for the operator and is not
\* shown as data: after it the view holds no row that the table never held.
C13_FailureReportedNotShownAsData ==
  [][ \A r \in monReqs :
        (MonResolves(r) /\ ~r.ok)
          => /\ monToast' # "none"
             /\ \A i \in 1..Len(monLocations') : monLocations'[i] \in MonTableRows
    ]_vars

\* C14: a failed fetch leaves the cached locations as they were and starts
\* no further request.
C14_FailedFetchKeepsCache ==
  [][ \A r \in monReqs :
        (MonResolves(r) /\ ~r.ok)
          => /\ monLocations' = monLocations
             /\ monReqs' \subseteq monReqs
             /\ monNextReq' = monNextReq
    ]_vars

\* C15: the loading flag is true exactly while a fetch of the view is in
\* flight.
C15_LoadingIffFetchInFlight ==
  monLoading <=> (monReqs # {})

\* the part of C11 that the code keeps: the cache is fresh when the response
\* that resolved last belongs to the fetch that was started last
MonHealsWithoutOvertaking ==
  (monHeal = "notified" /\ monReqs = {} /\ monLastSeq = monNextReq)
    => monLocations \in MonFresh


(***************************************************************************)
(* Properties of E-FIR Management (SpecEfir).                              *)
(***************************************************************************)
\* t is s or lies after s on Pending -> Filed -> Resolved
StatusForward(s, t) ==
  \/ s = t
  \/ <<s, t>> \in { <<"Pending", "Filed">>, <<"Filed", "Resolved">>,
                     <<"Pending", "Resolved">> }

\* C5: whatever the interleaving of updateEfirStatus calls, also from views
\* whose cached list is stale, the status of a row of the table never moves
\* backwards on Pending -> Filed -> Resolved.
C5_StatusOnlyMovesForward ==
  [][\A id \in EfirIds :
       StatusForward(efirRows[id].status, efirRows'[id].status)]_vars

\* an update sent from a view that still displayed the row as Pending was
\* applied to a row that another view had already marked Filed
C5_Witness ==
  \E c \in efirCalls :
    /\ c.stage = "done"
    /\ c.ok
    /\ c.displayed = "Pending"
    /\ c.prev = "Filed"

\* C6: a row displayed as Pending offers only the transition to Filed, one
\* displayed as Filed only the transition to Resolved, one displayed as
\* Resolved none; so no call asks for Resolved on a row displayed as Pending,
\* and none reaches a row that is Pending in the table.
C6_OnlyNextStatusOffered ==
  /\ statusActions("Pending") = {"Filed"}
  /\ statusActions("Filed") = {"Resolved"}
  /\ statusActions("Resolved") = {}
  /\ \A c \in efirCalls :
       /\ c.newStatus = "Filed" => c.displayed = "Pending"
       /\ c.newStatus = "Resolved" => c.displayed = "Filed"
       /\ c.newStatus \in {"Filed", "Resolved"}
       /\ (c.stage = "done" /\ c.newStatus = "Resolved") => c.prev # "Pending"

\* `Mark as Resolved` was clicked on a row displayed as Filed after
\* `Mark as Filed` had been clicked on it, and the update reached the table
C6_Witness ==
  \E c \in efirCalls :
    /\ c.stage = "done"
    /\ c.newStatus = "Resolved"
    /\ c.displayed = "Filed"
    /\ efirRows[c.id].filed_at # NoFiledAt

\* C7: the update of updateEfirStatus(id, 'Resolved') on a row in status
\* Filed is accepted by the table and leaves the row in status Resolved.
C7_FiledToResolvedAccepted ==
  \A c \in efirCalls :
    (c.stage = "done" /\ c.newStatus = "Resolved" /\ c.prev = "Filed")
      => (c.ok /\ efirRows[c.id].status = "Resolved")

\* an update the table takes in this step
EfirServed(c) == c.stage = "sent" /\ c \notin efirCalls'

\* C24: updateEfirStatus writes filed_at exactly when the new status is
\* Filed: its updates carry filed_at if and only if the new status is Filed,
\* the Pending -> Filed update sets filed_at of the row to the time of the
\* call, and every other update (Filed -> Resolved) leaves filed_at of the
\* row as it was.
C24_FiledAtWrittenIffFiled ==
  [][ /\ \A c \in efirCalls' : (c.filed_at # NoFiledAt) <=> (c.newStatus = "Filed")
      /\ \A c \in efirCalls :
           EfirServed(c) =>
             IF c.newStatus = "Filed"
             THEN /\ efirRows'[c.id].status = "Filed"
                  /\ efirRows'[c.id].filed_at = c.filed_at
             ELSE efirRows'[c.id].filed_at = efirRows[c.id].filed_at
      /\ (\A c \in efirCalls : ~EfirServed(c)) =>
           \A id \in EfirIds : efirRows'[id].filed_at = efirRows[id].filed_at ]_vars

\* a row filed at the first click has taken a Resolved update sent at a later
\* click and still carries the filed_at of the first
C24_Witness ==
  \E c \in efirCalls :
    /\ c.stage = "done"
    /\ c.newStatus = "Resolved"
    /\ c.prev = "Filed"
    /\ c.filed_at = NoFiledAt
    /\ efirClock >= 2
    /\ efirRows[c.id].filed_at = 1

(***************************************************************************)
(* Properties of the realtime channels (SpecSub).                          *)
(***************************************************************************)

\* C8: at every moment there is at most one active realtime subscription
\* per (table, dashboard view) pair, the SOS & Incidents page being taken
\* together with the NotificationSystem it renders.
C8_OneSubscriptionPerTableAndView ==
  \A c1, c2 \in subChannels :
    (c1.table = c2.table /\ c1.view = c2.view) => c1 = c2

\* C9: once a commit is through, every subscribed channel was opened by the
\* live run of an effect of the view that is mounted; so no channel of a
\* view that was unmounted, or of a run that was cleaned up after a
\* dependency change, remains subscribed, and none at all after logout.
C9_NoChannelOutlivesItsRun ==
  subPending = <<>> =>
    /\ \A c \in subChannels :
         /\ c.view = subView
         /\ \E i \in 1..Len(EffectsOf(subView, subVersion)) :
              EffectsOf(subView, subVersion)[i] = c.effect
         /\ subRuns[c.effect] = c.run
    /\ subView = "none" => subChannels = {}

\* C9 witness: after logout, with the NotificationSystem incidents effect
\* having run twice (mount, then new callbacks) and the effect of the
\* Tourist Monitoring view too, no channel is left.
C9_Witness ==
  /\ subView = "none"
  /\ subPending = <<>>
  /\ subChannels = {}
  /\ \E c1, c2 \in subOpened :
       /\ c1.effect = "NotificationSystem.incidents"
       /\ c2.effect = "NotificationSystem.incidents"
       /\ c1.run # c2.run
  /\ \E c \in subOpened : c.table = LocationLogsTable

(***************************************************************************)
(* Properties of the incidents list (SpecList).                            *)
(***************************************************************************)

\* C16: computing the filtered and sorted list leaves the incidents array
\* of the page as setIncidents stored it, in contents and in order, for
\* every search term, status filter and sort key, no filter included.
C16_IncidentsArrayUntouched == ilIncidents = ilFetched

\* the part of C16 that the code keeps: with a search term or a status
\* filter the sort works on a copy
IlFilteredSortLeavesArray ==
  [][ (~(ilSearchTerm' = <<>> /\ ilStatusFilter' = sAll) /\ ilFetched' = ilFetched)
        => ilIncidents' = ilIncidents ]_vars

\* C17: from every state of the list some sequence of the operator's
\* actions reaches sortOrder = asc and some sequence reaches desc.
C17_SortOrderToggleable ==
  \A order \in {"asc", "desc"} :
    \E c \in ExposedReach({IlState}) : c.sortOrder = order

\* what holds instead of C17: the list always sorts descending
IlSortOrderStaysDescending == ilSortOrder = "desc"

\* C20: rows whose tourist is missing or whose description is null never
\* make the filter or the search throw.
C20_ListTotalOverMissingData == ~ilThrew

\* the part of C20 that the code keeps: a missing tourist alone does not
\* make the search throw
IlMissingTouristDoesNotThrow ==
  (\A i \in 1..Len(ilIncidents) : ~ilIncidents[i].description.null) => ~ilThrew

(***************************************************************************)
(* Properties of the sort and the status filters (SpecListFn).             *)
(***************************************************************************)
Reverse(list) == [i \in 1..Len(list) |-> list[Len(list) + 1 - i]]

RowsIn(list) == { list[i] : i \in 1..Len(list) }

DistinctCreatedAt(list) ==
  \A i, j \in 1..Len(list) :
    i # j => getTime(list[i].created_at) # getTime(list[j].created_at)

\* C18: for incidents with pairwise distinct created_at, the list sorted by
\* created_at ascending is the reverse of the list sorted descending.
C18_AscendingIsReverseOfDescending ==
  (fnCalls.asc.called /\ fnCalls.desc.called /\ DistinctCreatedAt(fnIncidents))
    => fnCalls.asc.out = Reverse(fnCalls.desc.out)

\* C18 witness: three incidents with distinct created_at, handed over in
\* neither order, have been sorted both ways
C18_Witness ==
  /\ fnCalls.asc.called
  /\ fnCalls.desc.called
  /\ Len(fnCalls.asc.out) = MaxFnRows
  /\ DistinctCreatedAt(fnIncidents)
  /\ fnCalls.asc.out # fnCalls.desc.out
  /\ fnCalls.asc.arg = "asc"

\* the incident list filtered by a status returns the rows with that status
IncidentStatusFilterExact ==
  fnCalls.incidents.called =>
    RowsIn(fnCalls.incidents.out)
      = { x \in RowsIn(fnIncidents) : x.status = fnCalls.incidents.arg }

\* C19 as stated: with no search term, the incident list and the E-FIR list
\* filtered by a status value v return exactly the records whose status
\* equals v.
C19_StatusFilterReturnsEqualStatus ==
  /\ IncidentStatusFilterExact
  /\ fnCalls.efirs.called =>
       RowsIn(fnCalls.efirs.out)
         = { x \in RowsIn(fnEfirs) : x.status = fnCalls.efirs.arg }

\* C19 amended: the incident list returns exactly the records whose status
\* equals v; the E-FIR list returns exactly the records whose status, put in
\* lower case, equals v.
C19_StatusFilterAmended ==
  /\ IncidentStatusFilterExact
  /\ fnCalls.efirs.called =>
       RowsIn(fnCalls.efirs.out)
         = { x \in RowsIn(fnEfirs) : toLowerCase(x.status) = fnCalls.efirs.arg }

\* C19 witness: both filters have run; the E-FIR filter on 'pending' kept a
\* row stored as 'Pending' and dropped another, the incident filter kept a
\* row and dropped another
C19_Witness ==
  /\ fnCalls.efirs.called
  /\ fnCalls.efirs.arg = sPending
  /\ Len(fnCalls.efirs.out) = 1
  /\ Len(fnEfirs) = MaxFnEfirs
  /\ fnCalls.incidents.called
  /\ fnCalls.incidents.out # <<>>
  /\ Len(fnCalls.incidents.out) < Len(fnIncidents)

(***************************************************************************)
(* Properties of the notification list (SpecNotifList).                    *)
(***************************************************************************)
\* notifications made so far
NlMade == nlIncidents + nlAlerts

\* C22: the notification list never holds more than 10 entries after any
\* sequence of incident notifications, SOS notifications, single removals
\* and clear-all; a new notification is placed first, the entries that were
\* there follow it in their order, and those beyond the tenth are dropped.
C22_AtMostTenNewestFirst ==
  [][ /\ Len(nlNotifications') <= 10
      /\ NlMade' # NlMade =>
           /\ nlNotifications'[1].id \in
                {RowId(IncidentsTable, nlIncidents'), RowId(AlertsTable, nlAlerts')}
           /\ Len(nlNotifications') =
                (IF Len(nlNotifications) < 10 THEN Len(nlNotifications) + 1 ELSE 10)
           /\ \A k \in 2..Len(nlNotifications') :
                nlNotifications'[k] = nlNotifications[k - 1] ]_vars

\* an eleventh notification was made while the list held ten, and the list
\* holds the ten newest
C22_Witness ==
  /\ NlMade = 11
  /\ nlClicks = 0
  /\ Len(nlNotifications) = 10
  /\ \A k \in 1..10 : nlNotifications[k].id # RowId(IncidentsTable, 1)
  /\ nlNotifications[1] = NotificationItem("sos", RowId(AlertsTable, nlAlerts))

(***************************************************************************)
(* Properties of NotificationSystem (SpecNotif, SpecNotifFair).            *)
(***************************************************************************)
\* C23 as stated: for any sequence of INSERT events, repeated deliveries
\* and deliveries after an effect re-run included, each incident or alert
\* id produces at most one notification, and an id recorded by
\* initializePreviousData produces none.
C23_AtMostOneAndNoneIfRecorded ==
  \A t \in NotifTables : \A k \in NotifIds :
    /\ nfMade[t][k] <= 1
    /\ k \in nfRecorded[t] => nfMade[t][k] = 0

\* C23 (amended): each incident or alert id produces at most one
\* notification, whatever the repeated deliveries and effect re-runs; an id
\* that initializePreviousData recorded before a handler found it new is
\* never found new afterwards and produces no notification, and a row that
\* was there at the mount produces none.
C23_AtMostOneAndNoneOnceRecorded ==
  [][ \A t \in NotifTables : \A k \in NotifIds :
        /\ nfMade'[t][k] <= 1
        /\ k <= nfOld[t] => nfMade'[t][k] = 0
        /\ (k \in nfRecorded[t] /\ RowId(t, k) \notin nfAccepted) =>
             /\ RowId(t, k) \notin nfAccepted'
             /\ [table |-> t, id |-> k] \notin nfLookups'
             /\ nfMade'[t][k] = 0 ]_vars

\* after an effect re-run, an incident delivered twice has made one
\* notification, and an alert that initializePreviousData had recorded was
\* delivered and made none
C23_Witness ==
  /\ nfRun = 1
  /\ nfDelivered[IncidentsTable][2] = 2
  /\ nfMade[IncidentsTable][2] = 1
  /\ 2 \in nfRecorded[AlertsTable]
  /\ nfDelivered[AlertsTable][2] >= 1
  /\ RowId(AlertsTable, 2) \notin nfAccepted
  /\ nfMade[AlertsTable][2] = 0

\* C26: every INSERT event of a new SOS alert that is delivered to
\* NotificationSystem, and that its handler finds new, eventually yields a
\* notification entry and an onSosAlert call, for every outcome of the
\* detail lookup.
C26_SosInsertEventuallyNotified ==
  \A k \in NotifIds :
    (RowId(AlertsTable, k) \in nfAccepted)
      ~> (nfMade[AlertsTable][k] >= 1 /\ nfCalled[AlertsTable][k] >= 1)

\* every INSERT event a handler finds new eventually has its lookup settled
NfLookupSettles ==
  \A t \in NotifTables : \A k \in NotifIds :
    (RowId(t, k) \in nfAccepted) ~> ([table |-> t, id |-> k] \notin nfLookups)

(***************************************************************************)
(* Properties of Hazard Management (SpecHazard).                           *)
(***************************************************************************)
\* is_active is true and expires_at is absent or strictly later than nowMs
HazardActiveAt(hazard, nowMs) ==
  /\ hazard.is_active
  /\ \/ hazard.expires_at = NoExpiresAt
     \/ getTime(hazard.expires_at) > nowMs

\* C25: a hazard is counted and displayed as Active exactly when is_active
\* is true and either expires_at is absent or expires_at is strictly later
\* than the time of the call; a hazard whose expires_at equals that time is
\* Inactive.
C25_ActiveIffNotExpired ==
  /\ hzCountAt # 0 =>
       hzCount = Cardinality({ i \in 1..Len(hzHazards) :
                               HazardActiveAt(hzHazards[i], hzCountAt) })
  /\ hzBadgesAt # 0 =>
       /\ Len(hzBadges) = Len(hzHazards)
       /\ \A i \in 1..Len(hzHazards) :
            /\ hzBadges[i] = "Active" <=> HazardActiveAt(hzHazards[i], hzBadgesAt)
            /\ hzBadges[i] = "Inactive" <=> ~HazardActiveAt(hzHazards[i], hzBadgesAt)
            /\ (hzHazards[i].expires_at # NoExpiresAt
                  /\ getTime(hzHazards[i].expires_at) = hzBadgesAt)
                 => hzBadges[i] = "Inactive"

\* a render at 10:00:00.000 over a hazard that expires at that time and one
\* that expires a millisecond later: the first is Inactive, the second is
\* Active and the count is 1
C25_Witness ==
  /\ hzCountAt = getTime([h |-> 10, ms |-> 0])
  /\ hzBadgesAt = hzCountAt
  /\ hzHazards = << [is_active |-> TRUE, expires_at |-> [h |-> 10, ms |-> 0]],
                    [is_active |-> TRUE, expires_at |-> [h |-> 10, ms |-> 1]] >>
  /\ hzBadges = <<"Inactive", "Active">>
  /\ hzCount = 1

(***************************************************************************)
(* Properties of the incident status (SpecInc).                            *)
(***************************************************************************)
\* C27: every incident whose status is one of the enumerated values and is
\* not resolved has a sequence of exposed incidents-list actions that leads
\* it to resolved, incidents of status active included.
C27_EveryOpenIncidentCanBeResolved ==
  \A id \in DOMAIN incRows :
    incRows[id].status \in IncidentEnum \ {"resolved"}
      => "resolved" \in IncidentReach({incRows[id].status})

\* no step changes the status of a row whose status is active
IncActiveStaysActive ==
  [][ \A id \in DOMAIN incRows :
        incRows[id].status = "active" => incRows'[id].status = "active" ]_vars

(***************************************************************************)
(* Properties of the SOS alerts (SpecSos).                                 *)
(***************************************************************************)
\* C28: every alert with is_read = false in the fetched alert list is shown
\* in the active list of the SOS dashboard, and so can be marked resolved,
\* whatever its severity.
C28_UnreadAlertsShownActive ==
  \A id \in DOMAIN sosAlerts :
    ~sosAlerts[id].is_read => id \in activeSosAlerts(sosAlerts)

\* the second half of C28: an alert leaves the active list only in a step
\* that stores a fetched list in which it is marked read.  A response
\* overtaken by a later one refutes it: the list it stores lacks the alert.
SosLeavesActiveListOnlyWhenRead ==
  [][ \A id \in activeSosAlerts(sosAlerts) :
        id \notin activeSosAlerts(sosAlerts') =>
          (id \in DOMAIN sosAlerts' /\ sosAlerts'[id].is_read /\ sosRows[id].is_read) ]_vars

\* no step marks read an unread alert whose severity is not high
SosOtherSeverityStaysUnread ==
  [][ \A id \in DOMAIN sosRows :
        (sosRows[id].severity # "high" /\ ~sosRows[id].is_read)
          => ~sosRows'[id].is_read ]_vars

(***************************************************************************)
(* Properties of the Tourist Records detail panel (SpecRec).               *)
(***************************************************************************)
\* C29: whenever the detail panel displays a last-known location, the
\* location belongs to the currently selected tourist, for any sequence of
\* View Details clicks and any order in which the location fetches complete.
C29_LocationBelongsToSelected ==
  (recSelected # "none" /\ recLocation # NoLocation)
    => recLocation.tourist_id = recSelected


(***************************************************************************)
(* Properties of SpecIdx.                                                  *)
(***************************************************************************)
\* the dashboard is rendered only with a user
IdxDashboardOnlyWithUser ==
  IndexRender(idxLoading, idxUser) = "dashboard" => idxUser # "none"

\* C30: Index renders a dashboard view only while user is non-null, and
\* once handleLogout has run it renders no dashboard until the callback of
\* onAuthStateChange has handled a SIGNED_IN event, whenever the getSession
\* promise resolves and whenever the callbacks run.
C30_NoDashboardAfterLogoutUntilSignedIn ==
  /\ IndexRender(idxLoading, idxUser) = "dashboard" => idxUser # "none"
  /\ idxLoggedOut => IndexRender(idxLoading, idxUser) # "dashboard"

====
